---- MODULE Spec2Model ----
(***************************************************************************)
(* A model of p1atdev/auraflow-ft: the image generation pipeline           *)
(* (AuraFlowModel.generate and its helpers, in both of its definitions),   *)
(* the VAE encode/decode boundary, prepare_latents, the PEFT set-up (the   *)
(* adapter injection, its parameters and their key remapping), the loading *)
(* of an original checkpoint, and Trainer.train in a main and a second     *)
(* process (model set-up, training loop, saving behind the barrier).       *)
(*                                                                         *)
(* Numbers.  cfg_scale is kept in tenths (10 is 1.0).  A schedule timestep *)
(* is an integer of [0, 1000]; a value of the timestep tensor handed to    *)
(* the denoiser is kept in thousandths, so that "t / 1000" is the integer  *)
(* t and the unscaled t is 1000 * t.  Tensors are sequences over the batch *)
(* dimension, one integer per row.                                         *)
(***************************************************************************)
EXTENDS Integers, Sequences, FiniteSets, TLC

VARIABLES
    impl,                 \* which definition of AuraFlowModel runs
    args,                 \* the arguments of the generate call
    home,                 \* where the caller keeps the sub-networks
    pc,                   \* position in generate
    device_of,            \* sub-network -> "cpu" | "cuda"
    do_cfg, timesteps, num_inference_steps, batch_size,
    encoder_output, latents, prompt_embeddings, i, noise_pred, image,
    order,                \* moves and calls, in program order
    te_calls, den_calls, step_calls, dec_calls,
    prev,                 \* the calls and result of the previous generate call
    \* the encode/decode boundary of the VAE
    vae_impl, vae_sample, image_latents, decode_input, vae_pc,
    \* a prepare_latents call
    pl_args, pl_latents, pl_pc,
    \* the PEFT set-up of the trainer
    peft_config, is_peft, modules, targets, peft_pc,
    adapters,             \* module position -> the adapter node put there
    weight,               \* module position -> weight and bias of a projection
    trainable,            \* the parameters with requires_grad
    replaced,             \* the positions given to an adapter, in order
    \* collecting and renaming the adapter parameters of the full model
    key_config, peft_state_dict, orig_state_dict, comfy_state_dict, key_pc,
    \* loading an original checkpoint
    ld_impl, checkpoint, subnet, ld_error, ld_pc,
    \* Trainer.train, in every process
    train_config, len_train_dataloader,
    tr_pc,                \* process -> position in Trainer.train
    epoch, batch_index, current_step,
    calls,                \* process -> the hooks it has called, in order
    arrived,              \* process -> its calls of wait_for_everyone
    saved,                \* what the saving callbacks have written
    model_modules, model_trainable, model_is_peft,
    log_config,           \* config.trainer.debug_mode and config.tracker
    trackers_initialised, \* whether __init__ called init_trackers
    log_calls,            \* the records handed to Trainer.log, in order
    accelerator_log,      \* the records handed on to accelerator.log
    log_pc,               \* position in the life of the Trainer object
    resize_args,          \* the transform's settings and the image size
    scaled_w, scaled_h,   \* the size handed to F.resize
    resize_pc             \* position in ObjectCoverResize.__call__

genVars == <<impl, args, home, pc, device_of, do_cfg, timesteps,
             num_inference_steps, batch_size, encoder_output, latents,
             prompt_embeddings, i, noise_pred, image, order, te_calls,
             den_calls, step_calls, dec_calls, prev>>

vaeVars == <<vae_impl, vae_sample, image_latents, decode_input, vae_pc>>
latVars == <<pl_args, pl_latents, pl_pc>>
peftVars == <<peft_config, is_peft, modules, targets, peft_pc, adapters,
              weight, trainable, replaced>>

keyVars == <<key_config, peft_state_dict, orig_state_dict, comfy_state_dict,
             key_pc>>
loadVars == <<ld_impl, checkpoint, subnet, ld_error, ld_pc>>

trainVars == <<train_config, len_train_dataloader, tr_pc, epoch, batch_index,
               current_step, calls, arrived, saved, model_modules,
               model_trainable, model_is_peft>>

logVars == <<log_config, trackers_initialised, log_calls, accelerator_log,
             log_pc>>

resizeVars == <<resize_args, scaled_w, scaled_h, resize_pc>>

vars == <<genVars, vaeVars, latVars, peftVars, keyVars, loadVars, trainVars,
          logVars, resizeVars>>

\* what generate leaves alone
GenFrame ==
    UNCHANGED <<vaeVars, latVars, peftVars, keyVars, loadVars, trainVars,
                logVars, resizeVars>>

\* ---------------------------------------------------------------- bounds
MaxBatch == 2
MaxSteps == 3

Impls == {"pipeline", "init"}
CfgScales == {9, 10, 11}
Sizes == {<<16, 16>>, <<20, 16>>, <<16, 24>>}
Seeds == {0, 1}
Networks == {"text_encoder", "denoiser", "vae"}

\* ------------------------------------------------------------- helpers
Rows(n, v) == [k \in 1..n |-> v]

Min(a, b) == IF a < b THEN a ELSE b

\* ----------------------------------------------- external collaborators
\* vae.compression_ratio and denoiser.config.in_channels
compression_ratio == 8
in_channels == 4

\* vae.scaling_factor, a rational
scaling_factor == [num |-> 13, den |-> 100]

\* scheduler.retrieve_timesteps: a uniform, strictly decreasing partition of
\* the 1000-unit range into n points, and the effective step count
retrieve_timesteps(n) ==
    <<[k \in 1..n |-> (1000 * (n - k + 1)) \div n], n>>

\* the timestep that follows t in the schedule ts (0 after the last one)
NextTimestep(ts, t) ==
    LET later == {k \in 1..Len(ts) : ts[k] < t}
    IN  IF later = {} THEN 0
        ELSE ts[CHOOSE k \in later : \A m \in later : k <= m]

\* scheduler.step: one explicit Euler step, row by row
scheduler_step(model_output, t, sample, ts) ==
    [r \in 1..Len(sample) |->
        sample[r] + ((NextTimestep(ts, t) - t) * model_output[r]) \div 1000]

\* text_encoder.encode_prompts: one row per prompt, and one row per negative
\* prompt (an empty prompt per prompt when none is given) when asked for
encode_prompts(prompt, negative_prompt, use_negative_prompts) ==
    [positive_embeddings |-> Rows(prompt, "pos"),
     negative_embeddings |->
        IF use_negative_prompts
        THEN Rows(IF negative_prompt = 0 THEN prompt ELSE negative_prompt, "neg")
        ELSE <<>>]

\* tensor_utils.incremental_seed_randn: row k is drawn with seed + k - 1 by
\* the generator of the device (the devices' generators differ)
incremental_seed_randn(shape, seed, device) ==
    [shape |-> shape,
     rows |-> [k \in 1..shape[1] |->
                 10000 + 1000 * (seed + k - 1)
                       + (IF device = "cuda" THEN 0 ELSE 500)]]

\* the noise-prediction network, a black box: one estimate per row from the
\* row's latent, its conditioning and its timestep
predict_noise(x, c, t) == x + (IF c = "pos" THEN t ELSE 0 - t)


CeilDiv(a, b) == (a + b - 1) \div b

\* ------------------------------------------------------ AuraFlowModel
\* the spatial sizes rounded up
prepare_latents_Ceil(batch, height, width, device, seed, supplied) ==
    IF ~supplied.given
    THEN incremental_seed_randn(
            <<batch, in_channels, CeilDiv(height, compression_ratio),
              CeilDiv(width, compression_ratio)>>, seed, device)
    ELSE [shape |-> supplied.shape, rows |-> supplied.rows]

\* prepare_latents: a fresh draw of the computed shape, or the caller's
\* latent cast to the dtype and device (its shape as it came)
prepare_latents(batch, height, width, device, seed, supplied) ==
    IF ~supplied.given
    THEN incremental_seed_randn(
            <<batch, in_channels, height \div compression_ratio,
              width \div compression_ratio>>, seed, device)
    ELSE [shape |-> supplied.shape, rows |-> supplied.rows]

\* encode_image: the latent made of the encoder's raw sample (a rational)
encode_image(definition, sample) ==
    IF definition = "pipeline"
    THEN [num |-> sample * scaling_factor.num, den |-> scaling_factor.den]
    ELSE [num |-> sample, den |-> 1]

\* decode_image: what it hands to vae.decode
decode_image(latent) ==
    [num |-> latent.num * scaling_factor.den,
     den |-> latent.den * scaling_factor.num]

\* vae.decode and tensor_to_images, a black box over the value it is given
vae_decode(x) == x.num \div x.den

\* guidance switched on at 1.0 already
DoCfg_AtLeast(cfg_scale) == cfg_scale >= 10

\* do_cfg = cfg_scale > 1.0
DoCfg(cfg_scale) == cfg_scale > 10

\* torch.cat([latents] * 2) if do_cfg else latents
LatentModelInput(rows, cfg) == IF cfg THEN rows \o rows ELSE rows

\* torch.cat([positive_embeddings, negative_embeddings])
CatEmbeddings(out) == out.positive_embeddings \o out.negative_embeddings

\* the timestep argument of the denoiser call: pipeline.py hands over
\* [t / 1000] expanded to the input's batch under the keyword "timestep",
\* __init__.py the whole schedule under the keyword "timesteps"
TimestepArgument(definition, t, n, schedule) ==
    IF definition = "pipeline"
    THEN [kw |-> "timestep", value |-> Rows(n, t)]
    ELSE [kw |-> "timesteps",
          value |-> [k \in 1..Len(schedule) |-> 1000 * schedule[k]]]

\* Denoiser.forward(latent, encoder_hidden_states, timestep): another keyword
\* is a TypeError; the conditioning and the timestep are cut to the latent's
\* batch, and rows that are then missing fail the concatenation
DenoiserForward(call) ==
    LET b == Len(call.latent)
        cond == SubSeq(call.encoder_hidden_states, 1,
                       Min(b, Len(call.encoder_hidden_states)))
        ts == SubSeq(call.timestep, 1, Min(b, Len(call.timestep)))
    IN  IF call.kw # "timestep" \/ Len(cond) < b \/ Len(ts) < b
        THEN [ok |-> FALSE, out |-> <<>>]
        ELSE [ok |-> TRUE,
              out |-> [r \in 1..b |-> predict_noise(call.latent[r], cond[r], ts[r])]]

\* noise_pred.chunk(2), then negative + cfg_scale * (positive - negative)
GuidanceCombine(pred, cfg_scale) ==
    LET half == Len(pred) \div 2
    IN  [r \in 1..half |->
            pred[half + r] + (cfg_scale * (pred[r] - pred[half + r])) \div 10]

GuidedNoise(pred, cfg, cfg_scale) ==
    IF cfg THEN GuidanceCombine(pred, cfg_scale) ELSE pred

\* "if do_offloading:" of pipeline.py; __init__.py moves unconditionally
Offloads == impl = "init" \/ args.do_offloading

execution_device == "cuda"

\* the draw made on the device the denoiser is on
LatentsDevice_OfDenoiser == device_of["denoiser"]

\* the device prepare_latents draws on
LatentsDevice == execution_device

MoveIfOffloading(net, dev) ==
    IF Offloads
    THEN /\ device_of' = [device_of EXCEPT ![net] = dev]
         /\ order' = Append(order, <<"to", net, dev>>)
    ELSE UNCHANGED <<device_of, order>>

NoRun == [ran |-> FALSE, te_calls |-> <<>>, den_calls |-> <<>>,
          step_calls |-> <<>>, dec_calls |-> <<>>, image |-> <<>>]

NotSupplied == [given |-> FALSE, shape |-> <<>>, rows |-> <<>>]
NoLatents == [shape |-> <<>>, rows |-> <<>>]
NoOutput == [positive_embeddings |-> <<>>, negative_embeddings |-> <<>>]

Locals0 ==
    /\ do_cfg = FALSE /\ timesteps = <<>> /\ num_inference_steps = 0
    /\ batch_size = 0 /\ encoder_output = NoOutput /\ latents = NoLatents
    /\ prompt_embeddings = <<>> /\ i = 0 /\ noise_pred = <<>> /\ image = <<>>
    /\ order = <<>> /\ te_calls = <<>> /\ den_calls = <<>>
    /\ step_calls = <<>> /\ dec_calls = <<>>

ResetLocals ==
    /\ do_cfg' = FALSE /\ timesteps' = <<>> /\ num_inference_steps' = 0
    /\ batch_size' = 0 /\ encoder_output' = NoOutput /\ latents' = NoLatents
    /\ prompt_embeddings' = <<>> /\ i' = 0 /\ noise_pred' = <<>> /\ image' = <<>>
    /\ order' = <<>> /\ te_calls' = <<>> /\ den_calls' = <<>>
    /\ step_calls' = <<>> /\ dec_calls' = <<>>

GenIdle ==
    /\ impl = "pipeline"
    /\ args = [prompt |-> 1, negative_prompt |-> 0, size |-> <<16, 16>>,
               num_inference_steps |-> 1, cfg_scale |-> 10, seed |-> 0,
               do_offloading |-> FALSE]
    /\ home = "cpu"
    /\ device_of = [n \in Networks |-> "cpu"]
    /\ pc = "idle"
    /\ Locals0
    /\ prev = NoRun

GenInit ==
    /\ impl \in Impls
    /\ args \in [prompt : 1..MaxBatch, negative_prompt : 0..MaxBatch,
                 size : Sizes, num_inference_steps : 0..MaxSteps,
                 cfg_scale : CfgScales, seed : Seeds, do_offloading : BOOLEAN]
    /\ impl = "init" => args.do_offloading
    /\ home \in {"cpu", "cuda"}
    /\ device_of = [n \in Networks |-> home]
    /\ pc = "args"
    /\ Locals0
    /\ prev = NoRun

\* 1. Prepare args
PrepareArgs ==
    /\ pc = "args"
    /\ do_cfg' = DoCfg(args.cfg_scale)
    /\ batch_size' = args.prompt
    /\ IF args.num_inference_steps < 1
       THEN /\ pc' = "failed"
            /\ UNCHANGED <<timesteps, num_inference_steps>>
       ELSE /\ timesteps' = retrieve_timesteps(args.num_inference_steps)[1]
            /\ num_inference_steps' = retrieve_timesteps(args.num_inference_steps)[2]
            /\ pc' = "te_to_device"
    /\ UNCHANGED <<impl, args, home, device_of, encoder_output, latents,
                   prompt_embeddings, i, noise_pred, image, order, te_calls,
                   den_calls, step_calls, dec_calls, prev>>
    /\ GenFrame

\* 2. Encode text
TextEncoderToDevice ==
    /\ pc = "te_to_device"
    /\ MoveIfOffloading("text_encoder", execution_device)
    /\ pc' = "encode"
    /\ UNCHANGED <<impl, args, home, do_cfg, timesteps, num_inference_steps,
                   batch_size, encoder_output, latents, prompt_embeddings, i,
                   noise_pred, image, te_calls, den_calls, step_calls,
                   dec_calls, prev>>
    /\ GenFrame

EncodePrompts ==
    /\ pc = "encode"
    /\ encoder_output' = encode_prompts(args.prompt, args.negative_prompt, do_cfg)
    /\ te_calls' = Append(te_calls,
            [prompt |-> args.prompt, negative_prompt |-> args.negative_prompt,
             use_negative_prompts |-> do_cfg])
    /\ order' = Append(order, <<"call", "text_encoder", device_of["text_encoder"]>>)
    /\ pc' = "te_to_cpu"
    /\ UNCHANGED <<impl, args, home, device_of, do_cfg, timesteps,
                   num_inference_steps, batch_size, latents, prompt_embeddings,
                   i, noise_pred, image, den_calls, step_calls, dec_calls, prev>>
    /\ GenFrame

TextEncoderToCpu ==
    /\ pc = "te_to_cpu"
    /\ MoveIfOffloading("text_encoder", "cpu")
    /\ pc' = "prepare_latents"
    /\ UNCHANGED <<impl, args, home, do_cfg, timesteps, num_inference_steps,
                   batch_size, encoder_output, latents, prompt_embeddings, i,
                   noise_pred, image, te_calls, den_calls, step_calls,
                   dec_calls, prev>>
    /\ GenFrame

\* 3. Prepare latents
PrepareLatents ==
    /\ pc = "prepare_latents"
    /\ latents' = prepare_latents(batch_size, args.size[1], args.size[2],
                                  LatentsDevice, args.seed, NotSupplied)
    /\ pc' = "den_to_device"
    /\ UNCHANGED <<impl, args, home, device_of, do_cfg, timesteps,
                   num_inference_steps, batch_size, encoder_output,
                   prompt_embeddings, i, noise_pred, image, order, te_calls,
                   den_calls, step_calls, dec_calls, prev>>
    /\ GenFrame

\* the move to the device left out
DenoiserToDevice_NotMoved ==
    /\ pc = "den_to_device"
    /\ i' = 1
    /\ pc' = IF impl = "pipeline" THEN "cat" ELSE "loop"
    /\ UNCHANGED <<impl, args, home, device_of, order, do_cfg, timesteps,
                   num_inference_steps, batch_size, encoder_output, latents,
                   prompt_embeddings, noise_pred, image, te_calls, den_calls,
                   step_calls, dec_calls, prev>>
    /\ GenFrame

\* 4. Denoising loop
DenoiserToDevice ==
    /\ pc = "den_to_device"
    /\ MoveIfOffloading("denoiser", execution_device)
    /\ i' = 1
    /\ pc' = IF impl = "pipeline" THEN "cat" ELSE "loop"
    /\ UNCHANGED <<impl, args, home, do_cfg, timesteps, num_inference_steps,
                   batch_size, encoder_output, latents, prompt_embeddings,
                   noise_pred, image, te_calls, den_calls, step_calls,
                   dec_calls, prev>>
    /\ GenFrame

\* pipeline.py concatenates the embeddings once, before the loop
ConcatEmbeddings ==
    /\ pc = "cat"
    /\ prompt_embeddings' = CatEmbeddings(encoder_output)
    /\ pc' = "loop"
    /\ UNCHANGED <<impl, args, home, device_of, do_cfg, timesteps,
                   num_inference_steps, batch_size, encoder_output, latents, i,
                   noise_pred, image, order, te_calls, den_calls, step_calls,
                   dec_calls, prev>>
    /\ GenFrame

\* the denoiser call of iteration i, as generate issues it
DenoiserCallOf(definition, rows, cfg, embeddings, out, schedule, k) ==
    LET latent_model_input == LatentModelInput(rows, cfg)
        ts == TimestepArgument(definition, schedule[k],
                               Len(latent_model_input), schedule)
    IN  [latent |-> latent_model_input,
         encoder_hidden_states |->
            IF definition = "pipeline" THEN embeddings ELSE CatEmbeddings(out),
         kw |-> ts.kw,
         timestep |-> ts.value,
         current_timestep |-> schedule[k]]

ThisCall ==
    DenoiserCallOf(impl, latents.rows, do_cfg, prompt_embeddings,
                   encoder_output, timesteps, i)

\* a loop that stops one timestep early
LoopRuns_Short(k, schedule) == k < Len(schedule)

\* for i, current_timestep in enumerate(timesteps)
LoopRuns(k, schedule) == k <= Len(schedule)

DenoiserCall ==
    /\ pc = "loop"
    /\ LoopRuns(i, timesteps)
    /\ DenoiserForward(ThisCall).ok
    /\ den_calls' = Append(den_calls, ThisCall)
    /\ order' = Append(order, <<"call", "denoiser", device_of["denoiser"]>>)
    /\ noise_pred' = DenoiserForward(ThisCall).out
    /\ pc' = "step"
    /\ UNCHANGED <<impl, args, home, device_of, do_cfg, timesteps,
                   num_inference_steps, batch_size, encoder_output, latents,
                   prompt_embeddings, i, image, te_calls, step_calls,
                   dec_calls, prev>>
    /\ GenFrame

\* the call raises: nothing of generate catches it
DenoiserRaises ==
    /\ pc = "loop"
    /\ LoopRuns(i, timesteps)
    /\ ~DenoiserForward(ThisCall).ok
    /\ den_calls' = Append(den_calls, ThisCall)
    /\ order' = Append(order, <<"call", "denoiser", device_of["denoiser"]>>)
    /\ pc' = "failed"
    /\ UNCHANGED <<impl, args, home, device_of, do_cfg, timesteps,
                   num_inference_steps, batch_size, encoder_output, latents,
                   prompt_embeddings, i, noise_pred, image, te_calls,
                   step_calls, dec_calls, prev>>
    /\ GenFrame

\* the result of scheduler.step dropped: latents stays what it was
SchedulerStep_Discarded ==
    /\ pc = "step"
    /\ LET guided == GuidedNoise(noise_pred, do_cfg, args.cfg_scale)
           out == scheduler_step(guided, timesteps[i], latents.rows, timesteps)
       IN  step_calls' = Append(step_calls,
                [model_output |-> guided, timestep |-> timesteps[i],
                 sample |-> latents.rows, combined |-> do_cfg, out |-> out])
    /\ order' = Append(order, <<"step", "scheduler", "-">>)
    /\ i' = i + 1
    /\ pc' = "loop"
    /\ UNCHANGED <<impl, args, home, device_of, do_cfg, timesteps,
                   num_inference_steps, batch_size, encoder_output, latents,
                   prompt_embeddings, noise_pred, image, te_calls, den_calls,
                   dec_calls, prev>>
    /\ GenFrame

\* perform cfg, then compute the previous noisy sample x_t -> x_t-1
SchedulerStep ==
    /\ pc = "step"
    /\ LET guided == GuidedNoise(noise_pred, do_cfg, args.cfg_scale)
           out == scheduler_step(guided, timesteps[i], latents.rows, timesteps)
       IN  /\ step_calls' = Append(step_calls,
                [model_output |-> guided, timestep |-> timesteps[i],
                 sample |-> latents.rows, combined |-> do_cfg, out |-> out])
           /\ latents' = [latents EXCEPT !.rows = out]
    /\ order' = Append(order, <<"step", "scheduler", "-">>)
    /\ i' = i + 1
    /\ pc' = "loop"
    /\ UNCHANGED <<impl, args, home, device_of, do_cfg, timesteps,
                   num_inference_steps, batch_size, encoder_output,
                   prompt_embeddings, noise_pred, image, te_calls, den_calls,
                   dec_calls, prev>>
    /\ GenFrame

DenoiserToCpu ==
    /\ pc = "loop"
    /\ ~LoopRuns(i, timesteps)
    /\ MoveIfOffloading("denoiser", "cpu")
    /\ pc' = "vae_to_device"
    /\ UNCHANGED <<impl, args, home, do_cfg, timesteps, num_inference_steps,
                   batch_size, encoder_output, latents, prompt_embeddings, i,
                   noise_pred, image, te_calls, den_calls, step_calls,
                   dec_calls, prev>>
    /\ GenFrame

\* 5. Decode the latents
VaeToDevice ==
    /\ pc = "vae_to_device"
    /\ MoveIfOffloading("vae", execution_device)
    /\ pc' = "decode"
    /\ UNCHANGED <<impl, args, home, do_cfg, timesteps, num_inference_steps,
                   batch_size, encoder_output, latents, prompt_embeddings, i,
                   noise_pred, image, te_calls, den_calls, step_calls,
                   dec_calls, prev>>
    /\ GenFrame

DecodeLatents ==
    /\ pc = "decode"
    /\ LET arg == [r \in 1..Len(latents.rows) |->
                      decode_image([num |-> latents.rows[r], den |-> 1])]
       IN  /\ dec_calls' = Append(dec_calls,
                                  [latents |-> latents.rows, arg |-> arg])
           /\ image' = [r \in 1..Len(arg) |-> vae_decode(arg[r])]
    /\ order' = Append(order, <<"call", "vae", device_of["vae"]>>)
    /\ pc' = "vae_to_cpu"
    /\ UNCHANGED <<impl, args, home, device_of, do_cfg, timesteps,
                   num_inference_steps, batch_size, encoder_output, latents,
                   prompt_embeddings, i, noise_pred, te_calls, den_calls,
                   step_calls, prev>>
    /\ GenFrame

VaeToCpu ==
    /\ pc = "vae_to_cpu"
    /\ MoveIfOffloading("vae", "cpu")
    /\ pc' = "done"
    /\ UNCHANGED <<impl, args, home, do_cfg, timesteps, num_inference_steps,
                   batch_size, encoder_output, latents, prompt_embeddings, i,
                   noise_pred, image, te_calls, den_calls, step_calls,
                   dec_calls, prev>>
    /\ GenFrame

\* the caller generates once more on the same model with the same arguments,
\* do_offloading switched
GenerateAgain ==
    /\ pc = "done"
    /\ ~prev.ran
    /\ prev' = [ran |-> TRUE, te_calls |-> te_calls, den_calls |-> den_calls,
                step_calls |-> step_calls, dec_calls |-> dec_calls,
                image |-> image]
    /\ args' = [args EXCEPT !.do_offloading = ~args.do_offloading]
    /\ pc' = "args"
    /\ ResetLocals
    /\ UNCHANGED <<impl, home, device_of>>
    /\ GenFrame

GenNext ==
    \/ PrepareArgs \/ TextEncoderToDevice \/ EncodePrompts \/ TextEncoderToCpu
    \/ PrepareLatents \/ DenoiserToDevice \/ ConcatEmbeddings \/ DenoiserCall
    \/ DenoiserRaises \/ SchedulerStep \/ DenoiserToCpu \/ VaeToDevice
    \/ DecodeLatents \/ VaeToCpu \/ GenerateAgain

\* --------------------------------------- the VAE encode/decode boundary
MaxSample == 12

VaeIdle ==
    /\ vae_impl = "pipeline" /\ vae_sample = 0
    /\ image_latents = [num |-> 0, den |-> 1]
    /\ decode_input = [num |-> 0, den |-> 1]
    /\ vae_pc = "idle"

VaeFrame ==
    UNCHANGED <<genVars, latVars, peftVars, keyVars, loadVars, trainVars,
                logVars, resizeVars>>

VaeInit ==
    /\ vae_impl \in Impls
    /\ vae_sample \in (0 - MaxSample)..MaxSample
    /\ image_latents = [num |-> 0, den |-> 1]
    /\ decode_input = [num |-> 0, den |-> 1]
    /\ vae_pc = "encode"

\* latents = self.encode_image(pixel_values)
EncodeImage ==
    /\ vae_pc = "encode"
    /\ image_latents' = encode_image(vae_impl, vae_sample)
    /\ vae_pc' = "decode"
    /\ UNCHANGED <<vae_impl, vae_sample, decode_input>>
    /\ VaeFrame

\* decode_image(latents) on the latents encode_image returned
DecodeImage ==
    /\ vae_pc = "decode"
    /\ decode_input' = decode_image(image_latents)
    /\ vae_pc' = "done"
    /\ UNCHANGED <<vae_impl, vae_sample, image_latents>>
    /\ VaeFrame

\* ------------------------------------------------------ prepare_latents
Heights == {16, 20, 24}
SuppliedSides == {2, 3}

LatIdle ==
    /\ pl_args = [batch_size |-> 0, height |-> 0, width |-> 0, seed |-> 0,
                  latents |-> NotSupplied]
    /\ pl_latents = NoLatents
    /\ pl_pc = "idle"

LatFrame ==
    UNCHANGED <<genVars, vaeVars, peftVars, keyVars, loadVars, trainVars,
                logVars, resizeVars>>

\* the latents a caller may supply: any batch and any spatial size
SuppliedLatents ==
    {[given |-> TRUE, shape |-> <<b, in_channels, h, w>>, rows |-> Rows(b, 7)] :
        b \in 1..MaxBatch, h \in SuppliedSides, w \in SuppliedSides}

LatInit ==
    /\ pl_args \in [batch_size : 1..MaxBatch, height : Heights, width : Heights,
                    seed : Seeds, latents : {NotSupplied} \cup SuppliedLatents]
    /\ pl_latents = NoLatents
    /\ pl_pc = "call"

PrepareLatentsCall ==
    /\ pl_pc = "call"
    /\ pl_latents' = prepare_latents(pl_args.batch_size, pl_args.height,
                                     pl_args.width, execution_device,
                                     pl_args.seed, pl_args.latents)
    /\ pl_pc' = "returned"
    /\ UNCHANGED pl_args
    /\ LatFrame

\* --------------------------------------------- the PEFT set-up (LoRA)
MaxKeys == 2

layer == <<"l", "a", "y", "e", "r">>
layer1 == layer \o <<"1">>
layer2 == layer \o <<"2">>
layer3 == layer \o <<"3">>
dot0 == <<".", "0">>
dot1 == <<".", "1">>
dot2 == <<".", "2">>

Module(path, kind, in_features, out_features) ==
    [path |-> path, kind |-> kind, in_features |-> in_features,
     out_features |-> out_features, rank |-> 0]

\* TestModel of the test, as named_modules() lists it
TestModel ==
    << Module(<<>>, "TestModel", 0, 0),
       Module(layer1, "Sequential", 0, 0),
       Module(layer1 \o dot0, "Linear", 10, 10),
       Module(layer1 \o dot1, "ReLU", 0, 0),
       Module(layer1 \o dot2, "Linear", 10, 10),
       Module(layer2, "Sequential", 0, 0),
       Module(layer2 \o dot0, "Linear", 10, 10),
       Module(layer2 \o dot1, "ReLU", 0, 0),
       Module(layer2 \o dot2, "Linear", 10, 10),
       Module(layer3, "ModuleList", 0, 0),
       Module(layer3 \o dot0, "Linear", 10, 20) >>

\* key in name
Contains(name, key) ==
    \E k \in 0..(Len(name) - Len(key)) : SubSeq(name, k + 1, k + Len(key)) = key

\* a target: a plain linear projection whose path has an include key (any
\* path when there are none) and no exclude key
IsTarget(m, include_keys, exclude_keys) ==
    /\ m.kind = "Linear"
    /\ include_keys = {} \/ \E key \in include_keys : Contains(m.path, key)
    /\ \A key \in exclude_keys : ~Contains(m.path, key)

\* the positions of the targets, in traversal order
RECURSIVE TargetsFrom(_, _, _, _)
TargetsFrom(mods, k, include_keys, exclude_keys) ==
    IF k > Len(mods) THEN <<>>
    ELSE (IF IsTarget(mods[k], include_keys, exclude_keys) THEN <<k>> ELSE <<>>)
            \o TargetsFrom(mods, k + 1, include_keys, exclude_keys)

find_targets(mods, include_keys, exclude_keys) ==
    TargetsFrom(mods, 1, include_keys, exclude_keys)

\* the adapter node that takes the projection's place
wrap(m, rank) == [m EXCEPT !.kind = "LoRALinear", !.rank = rank]

\* ---- what an adapter node holds
lora_alpha == 1

\* the values a variance-scaling draw of the down-projection may give
DownInits == {-1, 2}

\* the up-projection starts at exact zero
lora_up_init == 0

NoAdapter ==
    [present |-> FALSE, linear |-> Module(<<>>, "none", 0, 0),
     lora_down |-> [shape |-> <<0, 0>>, weight |-> 0],
     lora_up |-> [shape |-> <<0, 0>>, weight |-> 0, bias |-> 0],
     alpha |-> 0, rank |-> 0, use_bias |-> FALSE]

\* the up-projection drawn as the down-projection is
LoRALinear_UpDrawn(m, rank, use_bias, down) ==
    [present |-> TRUE, linear |-> m,
     lora_down |-> [shape |-> <<rank, m.in_features>>, weight |-> down],
     lora_up |-> [shape |-> <<m.out_features, rank>>, weight |-> down,
                  bias |-> 0],
     alpha |-> lora_alpha, rank |-> rank, use_bias |-> use_bias]

\* LoRALinear around the projection m
LoRALinear(m, rank, use_bias, down) ==
    [present |-> TRUE, linear |-> m,
     lora_down |-> [shape |-> <<rank, m.in_features>>, weight |-> down],
     lora_up |-> [shape |-> <<m.out_features, rank>>, weight |-> lora_up_init,
                  bias |-> 0],
     alpha |-> lora_alpha, rank |-> rank, use_bias |-> use_bias]

\* ---- parameter names
lora_ == <<"l", "o", "r", "a", "_">>
dot_weight == <<".", "w", "e", "i", "g", "h", "t">>
dot_bias == <<".", "b", "i", "a", "s">>
dot_alpha == <<".", "a", "l", "p", "h", "a">>
dot_linear == <<".", "l", "i", "n", "e", "a", "r">>
dot_scale == <<".", "s", "c", "a", "l", "e">>
dot_lora_down == <<".">> \o lora_ \o <<"d", "o", "w", "n">>
dot_lora_up == <<".">> \o lora_ \o <<"u", "p">>

\* the entries an adapter node adds to the model's state
AdapterKeys(path, use_bias) ==
    <<path \o dot_lora_down \o dot_weight, path \o dot_lora_up \o dot_weight>>
        \o (IF use_bias THEN <<path \o dot_lora_up \o dot_bias>> ELSE <<>>)
        \o <<path \o dot_alpha>>

\* the names one module gives to named_parameters()
ParametersOf(m, adapter) ==
    IF m.kind = "Linear" THEN <<m.path \o dot_weight, m.path \o dot_bias>>
    ELSE IF m.kind = "LoRALinear"
    THEN <<m.path \o dot_linear \o dot_weight, m.path \o dot_linear \o dot_bias>>
            \o AdapterKeys(m.path, adapter.use_bias)
    ELSE IF m.kind = "Conv2d" THEN <<m.path \o dot_weight, m.path \o dot_bias>>
    ELSE IF m.kind = "MigrationScaleFromZero" THEN <<m.path \o dot_scale>>
    ELSE <<>>

RECURSIVE ParametersFrom(_, _, _)
ParametersFrom(mods, adps, k) ==
    IF k > Len(mods) THEN <<>>
    ELSE ParametersOf(mods[k], adps[k]) \o ParametersFrom(mods, adps, k + 1)

named_parameters(mods, adps) == ParametersFrom(mods, adps, 1)

\* the down- and up-projection (and its bias) take gradients, the scale not
AdapterTrainable(path, use_bias) ==
    {path \o dot_lora_down \o dot_weight, path \o dot_lora_up \o dot_weight}
        \cup (IF use_bias THEN {path \o dot_lora_up \o dot_bias} ELSE {})

\* the collector: the entries of the adapter nodes, in traversal order
RECURSIVE AdapterParametersFrom(_, _, _)
AdapterParametersFrom(mods, adps, k) ==
    IF k > Len(mods) THEN <<>>
    ELSE (IF mods[k].kind = "LoRALinear"
          THEN AdapterKeys(mods[k].path, adps[k].use_bias) ELSE <<>>)
            \o AdapterParametersFrom(mods, adps, k + 1)

\* only the names that carry the "lora_" marker
get_adapter_parameters_ByMarker(mods, adps) ==
    SelectSeq(AdapterParametersFrom(mods, adps, 1),
              LAMBDA n : Contains(n, lora_))

get_adapter_parameters(mods, adps) == AdapterParametersFrom(mods, adps, 1)

\* ---- forward passes, on exact rationals
Inputs == {-2, 0, 1, 3}

Rat(n) == [num |-> n, den |-> 1]

RatEq(a, b) == a.num * b.den = b.num * a.den

linear_forward(wb, x) ==
    [num |-> wb.w * x.num + wb.b * x.den, den |-> x.den]

\* original(x) + (alpha / rank) * up(down(x))
lora_forward(adapter, wb, x) ==
    LET down == adapter.lora_down.weight * x.num
        up == adapter.lora_up.weight * down + adapter.lora_up.bias * x.den
        base == linear_forward(wb, x)
    IN  [num |-> base.num * adapter.rank + adapter.alpha * up,
         den |-> adapter.rank * x.den]

module_forward(m, adapter, wb, x) ==
    IF m.kind = "Linear" THEN linear_forward(wb, x)
    ELSE IF m.kind = "LoRALinear" THEN lora_forward(adapter, wb, x)
    ELSE IF m.kind = "ReLU"
    THEN [num |-> IF x.num > 0 THEN x.num ELSE 0, den |-> x.den]
    ELSE x

\* TestModel.forward: layer1, layer2, layer3[0]
RECURSIVE ForwardFrom(_, _, _, _, _)
ForwardFrom(mods, adps, wts, k, x) ==
    IF k > Len(mods) THEN x
    ELSE ForwardFrom(mods, adps, wts, k + 1,
                     module_forward(mods[k], adps[k], wts[k], x))

forward(mods, adps, wts, x) == ForwardFrom(mods, adps, wts, 1, Rat(x))

\* ---- the set-up
KeyPool == {dot0, dot2, layer1, layer2, layer3}
KeySets == {K \in SUBSET KeyPool : Cardinality(K) <= MaxKeys}

NoPeft == [present |-> FALSE, include_keys |-> {}, exclude_keys |-> {},
           rank |-> 0, use_bias |-> FALSE]

NoAdapters == [k \in 1..Len(TestModel) |-> NoAdapter]

\* weight and bias of the test model's projections, as drawn at construction
Weights ==
    {[k \in 1..Len(TestModel) |-> [w |-> a, b |-> c]] :
        a \in {-1, 2}, c \in {0, 1}}

PeftIdle ==
    /\ peft_config = NoPeft
    /\ is_peft = FALSE /\ modules = <<>> /\ targets = <<>> /\ peft_pc = "idle"
    /\ adapters = <<>> /\ weight = <<>> /\ trainable = {} /\ replaced = <<>>

PeftFrame ==
    UNCHANGED <<genVars, vaeVars, latVars, keyVars, loadVars, trainVars,
                logVars, resizeVars>>

PeftInit ==
    /\ peft_config \in {NoPeft} \cup
          [present : {TRUE}, include_keys : KeySets, exclude_keys : KeySets,
           rank : {4}, use_bias : BOOLEAN]
    /\ is_peft = FALSE
    /\ modules = TestModel
    /\ targets = <<>>
    /\ peft_pc = "setup"
    /\ adapters = NoAdapters
    /\ weight \in Weights
    /\ trainable = {named_parameters(TestModel, NoAdapters)[k] :
                        k \in 1..Len(named_parameters(TestModel, NoAdapters))}
    /\ replaced = <<>>

\* "if self.peft_config is None" instead of "is not None"
SetupPeftIfNeeded_Inverted ==
    /\ peft_pc = "setup"
    /\ IF ~peft_config.present
       THEN /\ is_peft' = TRUE
            /\ targets' = find_targets(modules, peft_config.include_keys,
                                       peft_config.exclude_keys)
            /\ trainable' = {}
            /\ peft_pc' = "replace"
       ELSE /\ is_peft' = FALSE
            /\ targets' = <<>>
            /\ trainable' = trainable
            /\ peft_pc' = "done"
    /\ UNCHANGED <<peft_config, modules, adapters, weight, replaced>>
    /\ PeftFrame

\* Trainer.setup_peft_if_needed, up to the start of replace_to_peft_linear,
\* which finds its targets and stops the gradients of what the model has
SetupPeftIfNeeded ==
    /\ peft_pc = "setup"
    /\ IF peft_config.present
       THEN /\ is_peft' = TRUE
            /\ targets' = find_targets(modules, peft_config.include_keys,
                                       peft_config.exclude_keys)
            /\ trainable' = {}
            /\ peft_pc' = "replace"
       ELSE /\ is_peft' = FALSE
            /\ targets' = <<>>
            /\ trainable' = trainable
            /\ peft_pc' = "done"
    /\ UNCHANGED <<peft_config, modules, adapters, weight, replaced>>
    /\ PeftFrame

\* the walker loses the sibling that follows the node it has just replaced
ReplaceTarget_SkipsSibling ==
    /\ peft_pc = "replace"
    /\ targets # <<>>
    /\ \E down \in DownInits :
          adapters' = [adapters EXCEPT ![Head(targets)] =
                          LoRALinear(modules[Head(targets)], peft_config.rank,
                                     peft_config.use_bias, down)]
    /\ modules' = [modules EXCEPT ![Head(targets)] = wrap(@, peft_config.rank)]
    /\ trainable' = trainable \cup AdapterTrainable(modules[Head(targets)].path,
                                                    peft_config.use_bias)
    /\ replaced' = Append(replaced, Head(targets))
    /\ targets' = IF Len(targets) >= 2 THEN Tail(Tail(targets)) ELSE <<>>
    /\ UNCHANGED <<peft_config, is_peft, peft_pc, weight>>
    /\ PeftFrame

\* replace_to_peft_linear: the next target gives its place to an adapter
ReplaceTarget ==
    /\ peft_pc = "replace"
    /\ targets # <<>>
    /\ \E down \in DownInits :
          adapters' = [adapters EXCEPT ![Head(targets)] =
                          LoRALinear(modules[Head(targets)], peft_config.rank,
                                     peft_config.use_bias, down)]
    /\ modules' = [modules EXCEPT ![Head(targets)] = wrap(@, peft_config.rank)]
    /\ trainable' = trainable \cup AdapterTrainable(modules[Head(targets)].path,
                                                    peft_config.use_bias)
    /\ replaced' = Append(replaced, Head(targets))
    /\ targets' = Tail(targets)
    /\ UNCHANGED <<peft_config, is_peft, peft_pc, weight>>
    /\ PeftFrame

\* replace_to_peft_linear returns; print_trainable_parameters
FinishReplace ==
    /\ peft_pc = "replace"
    /\ targets = <<>>
    /\ peft_pc' = "done"
    /\ UNCHANGED <<peft_config, is_peft, modules, targets, adapters, weight,
                   trainable, replaced>>
    /\ PeftFrame

\* ------------------------------------------ the full model and its keys
\* AuraFlowModel with the RoPE-migration denoiser, as named_modules() lists
\* it, one projection for each kind of place the patterns tell apart
path_denoiser ==
    <<"d", "e", "n", "o", "i", "s", "e", "r">>

path_denoiser_t_embedder_mlp_0 ==
    <<"d", "e", "n", "o", "i", "s", "e", "r", ".", "t", "_", "e", "m",
    "b", "e", "d", "d", "e", "r", ".", "m", "l", "p", ".", "0">>

path_denoiser_double_layers_0_attn_w1q ==
    <<"d", "e", "n", "o", "i", "s", "e", "r", ".", "d", "o", "u", "b",
    "l", "e", "_", "l", "a", "y", "e", "r", "s", ".", "0", ".", "a", "t",
    "t", "n", ".", "w", "1", "q">>

path_denoiser_double_layers_0_mlp_c_fc1 ==
    <<"d", "e", "n", "o", "i", "s", "e", "r", ".", "d", "o", "u", "b",
    "l", "e", "_", "l", "a", "y", "e", "r", "s", ".", "0", ".", "m", "l",
    "p", ".", "c", "_", "f", "c", "1">>

path_denoiser_double_layers_0_modC_1 ==
    <<"d", "e", "n", "o", "i", "s", "e", "r", ".", "d", "o", "u", "b",
    "l", "e", "_", "l", "a", "y", "e", "r", "s", ".", "0", ".", "m", "o",
    "d", "C", ".", "1">>

path_denoiser_double_layers_0_modX_1 ==
    <<"d", "e", "n", "o", "i", "s", "e", "r", ".", "d", "o", "u", "b",
    "l", "e", "_", "l", "a", "y", "e", "r", "s", ".", "0", ".", "m", "o",
    "d", "X", ".", "1">>

path_denoiser_final_linear ==
    <<"d", "e", "n", "o", "i", "s", "e", "r", ".", "f", "i", "n", "a",
    "l", "_", "l", "i", "n", "e", "a", "r">>

path_denoiser_migration_scale ==
    <<"d", "e", "n", "o", "i", "s", "e", "r", ".", "m", "i", "g", "r",
    "a", "t", "i", "o", "n", "_", "s", "c", "a", "l", "e">>

path_text_encoder_model_block_0_attn_q ==
    <<"t", "e", "x", "t", "_", "e", "n", "c", "o", "d", "e", "r", ".",
    "m", "o", "d", "e", "l", ".", "b", "l", "o", "c", "k", ".", "0", ".",
    "a", "t", "t", "n", ".", "q">>

path_vae_decoder_mid_attn_to_q ==
    <<"v", "a", "e", ".", "d", "e", "c", "o", "d", "e", "r", ".", "m",
    "i", "d", ".", "a", "t", "t", "n", ".", "t", "o", "_", "q">>

path_vae_decoder_conv_in ==
    <<"v", "a", "e", ".", "d", "e", "c", "o", "d", "e", "r", ".", "c",
    "o", "n", "v", "_", "i", "n">>

AuraFlowTree ==
    << Module(<<>>, "AuraFlowModel", 0, 0),
       Module(path_denoiser, "Denoiser", 0, 0),
       Module(path_denoiser_t_embedder_mlp_0, "Linear", 8, 8),
       Module(path_denoiser_double_layers_0_attn_w1q, "Linear", 8, 8),
       Module(path_denoiser_double_layers_0_mlp_c_fc1, "Linear", 8, 8),
       Module(path_denoiser_double_layers_0_modC_1, "Linear", 8, 8),
       Module(path_denoiser_double_layers_0_modX_1, "Linear", 8, 8),
       Module(path_denoiser_final_linear, "Linear", 8, 8),
       Module(path_denoiser_migration_scale, "MigrationScaleFromZero", 0, 0),
       Module(path_text_encoder_model_block_0_attn_q, "Linear", 8, 8),
       Module(path_vae_decoder_mid_attn_to_q, "Linear", 8, 8),
       Module(path_vae_decoder_conv_in, "Conv2d", 0, 0) >>

key_attn ==
    <<".", "a", "t", "t", "n", ".">>

key_mlp ==
    <<".", "m", "l", "p", ".">>

key_modC ==
    <<".", "m", "o", "d", "C", ".">>

key_modX ==
    <<".", "m", "o", "d", "X", ".">>

key_text_encoder ==
    <<"t", "e", "x", "t", "_", "e", "n", "c", "o", "d", "e", "r">>

key_vae ==
    <<"v", "a", "e">>

key_t_embedder ==
    <<"t", "_", "e", "m", "b", "e", "d", "d", "e", "r">>

key_final_linear ==
    <<"f", "i", "n", "a", "l", "_", "l", "i", "n", "e", "a", "r">>

denoiser_prefix ==
    <<"d", "e", "n", "o", "i", "s", "e", "r", ".">>

original_prefix ==
    <<"m", "o", "d", "e", "l", ".">>

comfy_prefix ==
    <<"d", "i", "f", "f", "u", "s", "i", "o", "n", "_", "m", "o", "d",
    "e", "l", ".">>

migration_scale_scale ==
    <<"m", "i", "g", "r", "a", "t", "i", "o", "n", "_", "s", "c", "a",
    "l", "e", ".", "s", "c", "a", "l", "e">>

\* str.startswith
startswith(key, prefix) ==
    Len(prefix) <= Len(key) /\ SubSeq(key, 1, Len(prefix)) = prefix

\* replace_to_peft_linear as one call: every target gives its place
RECURSIVE ReplaceAll(_, _, _)
ReplaceAll(mods, tgts, rank) ==
    IF tgts = <<>> THEN mods
    ELSE ReplaceAll([mods EXCEPT ![Head(tgts)] = wrap(@, rank)], Tail(tgts), rank)

replace_to_peft_linear(mods, config) ==
    ReplaceAll(mods,
               find_targets(mods, config.include_keys, config.exclude_keys),
               config.rank)

\* the adapter nodes replace_to_peft_linear has put into the tree
AdaptersOf(mods, config) ==
    [k \in 1..Len(mods) |->
        IF IsTarget(mods[k], config.include_keys, config.exclude_keys)
        THEN LoRALinear(mods[k], config.rank, config.use_bias, 2)
        ELSE NoAdapter]

\* a key no rule of the remapper knows
KeyMappingError == [ok |-> FALSE, key |-> <<>>]

\* the remapper always answers with the upstream prefix alone
convert_to_original_key_PrefixOnly(key) ==
    IF startswith(key, denoiser_prefix)
    THEN [ok |-> TRUE, key |-> original_prefix]
    ELSE KeyMappingError

\* internal key -> key of the original checkpoint
convert_to_original_key(key) ==
    IF startswith(key, denoiser_prefix)
    THEN [ok |-> TRUE,
          key |-> original_prefix
                    \o SubSeq(key, Len(denoiser_prefix) + 1, Len(key))]
    ELSE KeyMappingError

\* internal key -> key of the third-party inference tool
convert_to_comfy_key(key) ==
    IF startswith(key, denoiser_prefix)
    THEN [ok |-> TRUE,
          key |-> comfy_prefix
                    \o SubSeq(key, Len(denoiser_prefix) + 1, Len(key))]
    ELSE KeyMappingError

IncludePool == {key_attn, key_mlp, key_modC, key_modX}
ExcludePool == {key_text_encoder, key_vae, key_t_embedder, key_final_linear}

\* the LoRAConfig of test_save_lora_weight
SaveLoraConfig ==
    [present |-> TRUE, include_keys |-> IncludePool,
     exclude_keys |-> ExcludePool, rank |-> 4, use_bias |-> FALSE]

KeyIdle ==
    /\ key_config = NoPeft /\ peft_state_dict = <<>>
    /\ orig_state_dict = {} /\ comfy_state_dict = {} /\ key_pc = "idle"

KeyFrame ==
    UNCHANGED <<genVars, vaeVars, latVars, peftVars, loadVars, trainVars,
                logVars, resizeVars>>

KeyInit ==
    /\ key_config \in [present : {TRUE}, include_keys : SUBSET IncludePool,
                       exclude_keys : SUBSET ExcludePool, rank : {4},
                       use_bias : BOOLEAN]
    /\ peft_state_dict = <<>>
    /\ orig_state_dict = {} /\ comfy_state_dict = {}
    /\ key_pc = "inject"

\* replace_to_peft_linear(model, config); get_adapter_parameters(model)
CollectAdapterParameters ==
    /\ key_pc = "inject"
    /\ peft_state_dict' =
          get_adapter_parameters(replace_to_peft_linear(AuraFlowTree, key_config),
                                 AdaptersOf(AuraFlowTree, key_config))
    /\ key_pc' = "original"
    /\ UNCHANGED <<key_config, orig_state_dict, comfy_state_dict>>
    /\ KeyFrame

\* {convert_to_original_key(key): value for key, value in ...}
ConvertToOriginal ==
    /\ key_pc = "original"
    /\ IF \A k \in 1..Len(peft_state_dict) :
              convert_to_original_key(peft_state_dict[k]).ok
       THEN /\ orig_state_dict' =
                  {convert_to_original_key(peft_state_dict[k]).key :
                      k \in 1..Len(peft_state_dict)}
            /\ key_pc' = "comfy"
       ELSE /\ orig_state_dict' = {}
            /\ key_pc' = "KeyMappingError"
    /\ UNCHANGED <<key_config, peft_state_dict, comfy_state_dict>>
    /\ KeyFrame

\* {convert_to_comfy_key(key): value for key, value in ...}
ConvertToComfy ==
    /\ key_pc = "comfy"
    /\ IF \A k \in 1..Len(peft_state_dict) :
              convert_to_comfy_key(peft_state_dict[k]).ok
       THEN /\ comfy_state_dict' =
                  {convert_to_comfy_key(peft_state_dict[k]).key :
                      k \in 1..Len(peft_state_dict)}
            /\ key_pc' = "done"
       ELSE /\ comfy_state_dict' = {}
            /\ key_pc' = "KeyMappingError"
    /\ UNCHANGED <<key_config, peft_state_dict, orig_state_dict>>
    /\ KeyFrame

\* ------------------------------------------- loading an original checkpoint
DENOISER_TENSOR_PREFIX == original_prefix

TEXT_ENCODER_TENSOR_PREFIX == <<"t", "5", ".">>

k_a == <<"a">>
k_b == <<"b">>

\* the parameters each sub-network expects
ExpectedKeys ==
    [denoiser |-> {k_a, k_b}, text_encoder |-> {k_a}]

\* the keys a checkpoint file may hold
CheckpointKeys ==
    {DENOISER_TENSOR_PREFIX \o k_a, DENOISER_TENSOR_PREFIX \o k_b,
     TEXT_ENCODER_TENSOR_PREFIX \o k_a, TEXT_ENCODER_TENSOR_PREFIX \o k_b,
     <<"v", "a", "e", ".">> \o k_a}

\* {key[len(prefix):]: value for key, value in state_dict.items()
\*      if key.startswith(prefix)}
StripPrefix(state_dict, prefix) ==
    {SubSeq(key, Len(prefix) + 1, Len(key)) :
        key \in {k \in state_dict : startswith(k, prefix)}}

\* nn.Module.load_state_dict(mapping, assign=True), strict: what is assigned
\* and whether it raises for missing or unexpected keys
load_state_dict(expected, mapping) ==
    [assigned |-> mapping \cap expected, raises |-> mapping # expected]

NotLoaded ==
    [denoiser |-> [loaded |-> FALSE, given |-> {}, assigned |-> {}],
     text_encoder |-> [loaded |-> FALSE, given |-> {}, assigned |-> {}]]

LoadIdle ==
    /\ ld_impl = "none" /\ checkpoint = {} /\ subnet = NotLoaded
    /\ ld_error = "none" /\ ld_pc = "idle"

LoadFrame ==
    UNCHANGED <<genVars, vaeVars, latVars, peftVars, keyVars, trainVars,
                logVars, resizeVars>>

LoadInit ==
    /\ ld_impl \in Impls
    /\ checkpoint \in SUBSET CheckpointKeys
    /\ subnet = NotLoaded
    /\ ld_error = "none"
    /\ ld_pc = "denoiser"

\* self.denoiser.load_state_dict({...}, assign=True)
LoadDenoiser ==
    /\ ld_pc = "denoiser"
    /\ LET mapping == StripPrefix(checkpoint, DENOISER_TENSOR_PREFIX)
           res == load_state_dict(ExpectedKeys.denoiser, mapping)
       IN  /\ subnet' = [subnet EXCEPT !.denoiser =
                            [loaded |-> TRUE, given |-> mapping,
                             assigned |-> res.assigned]]
           /\ ld_error' = IF res.raises THEN "RuntimeError" ELSE "none"
           /\ ld_pc' = IF res.raises THEN "failed" ELSE "vae"
    /\ UNCHANGED <<ld_impl, checkpoint>>
    /\ LoadFrame

\* VAE.from_pretrained(...)
LoadVae ==
    /\ ld_pc = "vae"
    /\ ld_pc' = "text_encoder"
    /\ UNCHANGED <<ld_impl, checkpoint, subnet, ld_error>>
    /\ LoadFrame

\* self.text_encoder.model.load_state_dict({...}, assign=True)
LoadTextEncoder ==
    /\ ld_pc = "text_encoder"
    /\ LET mapping == StripPrefix(checkpoint, TEXT_ENCODER_TENSOR_PREFIX)
           res == load_state_dict(ExpectedKeys.text_encoder, mapping)
       IN  /\ subnet' = [subnet EXCEPT !.text_encoder =
                            [loaded |-> TRUE, given |-> mapping,
                             assigned |-> res.assigned]]
           /\ ld_error' = IF res.raises THEN "RuntimeError" ELSE "none"
           /\ ld_pc' = IF res.raises THEN "failed" ELSE "done"
    /\ UNCHANGED <<ld_impl, checkpoint>>
    /\ LoadFrame

\* ------------------------------------------------------------ the trainer
MaxEpochs == 2
MaxBatches == 2
MaxCallbacks == 2

\* the processes accelerate runs the script in
Processes == {"main", "other"}

is_main_process(p) == p = "main"

DebugModes == {"False", "dataset", "sanity_check", "1step"}

NoSaving ==
    [present |-> FALSE, per_epochs |-> 0, per_steps |-> 0, save_last |-> FALSE,
     callbacks |-> 0]

\* config.saving: a strategy (0 for None) and a number of callbacks
SavingConfigs ==
    {NoSaving,
     [present |-> TRUE, per_epochs |-> 0, per_steps |-> 1, save_last |-> FALSE,
      callbacks |-> 1],
     [present |-> TRUE, per_epochs |-> 0, per_steps |-> 2, save_last |-> FALSE,
      callbacks |-> MaxCallbacks],
     [present |-> TRUE, per_epochs |-> 1, per_steps |-> 0, save_last |-> FALSE,
      callbacks |-> 0],
     [present |-> TRUE, per_epochs |-> 0, per_steps |-> 0, save_last |-> TRUE,
      callbacks |-> 1]}

\* ModelSavingStrategy.should_save
should_save(strategy, steps_per_epoch, total_epochs, at_epoch, steps) ==
    \/ strategy.per_steps > 0 /\ steps % strategy.per_steps = 0
    \/ /\ strategy.per_epochs > 0
       /\ steps = at_epoch * steps_per_epoch
       /\ at_epoch % strategy.per_epochs = 0
    \/ strategy.save_last /\ steps = total_epochs * steps_per_epoch

Call(name, at_epoch, steps) == [name |-> name, epoch |-> at_epoch, steps |-> steps]

\* the parameters of the model the main process has set up
ModelAdapters ==
    IF model_is_peft THEN AdaptersOf(AuraFlowTree, train_config.peft)
    ELSE [k \in 1..Len(AuraFlowTree) |-> NoAdapter]

ModelParameters ==
    {named_parameters(model_modules, ModelAdapters)[k] :
        k \in 1..Len(named_parameters(model_modules, ModelAdapters))}

\* get_state_dict_to_save: the keys of the mapping it returns
get_state_dict_to_save ==
    IF ~model_is_peft THEN ModelParameters
    ELSE LET state_dict == get_adapter_parameters(model_modules, ModelAdapters)
         IN  {convert_to_comfy_key(state_dict[k]).key : k \in 1..Len(state_dict)}

TrainIdle ==
    /\ train_config = [debug_mode |-> "False", num_train_epochs |-> 0,
                 peft |-> NoPeft, saving |-> NoSaving]
    /\ len_train_dataloader = 0
    /\ tr_pc = [p \in Processes |-> "idle"]
    /\ epoch = [p \in Processes |-> 0]
    /\ batch_index = [p \in Processes |-> 0]
    /\ current_step = [p \in Processes |-> 0]
    /\ calls = [p \in Processes |-> <<>>]
    /\ arrived = [p \in Processes |-> 0]
    /\ saved = <<>>
    /\ model_modules = <<>> /\ model_trainable = {} /\ model_is_peft = FALSE

TrainFrame ==
    UNCHANGED <<genVars, vaeVars, latVars, peftVars, keyVars, loadVars,
                logVars, resizeVars>>

TrainInit ==
    /\ train_config \in [debug_mode : DebugModes, num_train_epochs : 1..MaxEpochs,
                   peft : {NoPeft, SaveLoraConfig}, saving : SavingConfigs]
    /\ len_train_dataloader \in 0..MaxBatches
    /\ tr_pc = [p \in Processes |-> "before_train"]
    /\ epoch = [p \in Processes |-> 0]
    /\ batch_index = [p \in Processes |-> 0]
    /\ current_step = [p \in Processes |-> 0]
    /\ calls = [p \in Processes |-> <<>>]
    /\ arrived = [p \in Processes |-> 0]
    /\ saved = <<>>
    /\ model_modules = <<>> /\ model_trainable = {} /\ model_is_peft = FALSE

Log(p, entries) == calls' = [calls EXCEPT ![p] = @ \o entries]

Goto(p, label) == tr_pc' = [tr_pc EXCEPT ![p] = label]

\* Trainer.before_train, up to prepare_model
BeforeTrain(p) ==
    /\ tr_pc[p] = "before_train"
    /\ IF train_config.debug_mode = "dataset"
       THEN /\ Log(p, <<Call("debug_dataset", 0, 0)>>)
            /\ Goto(p, "returned")
       ELSE /\ Log(p, <<>>)
            /\ Goto(p, IF is_main_process(p) THEN "setup_model"
                       ELSE "setup_optimizer")
    /\ UNCHANGED <<train_config, len_train_dataloader, epoch, batch_index,
                   current_step, arrived, saved, model_modules,
                   model_trainable, model_is_peft>>
    /\ TrainFrame

\* prepare_model on the main process: before_setup_model, setup_model
SetupModel(p) ==
    /\ tr_pc[p] = "setup_model"
    /\ model_modules' = AuraFlowTree
    /\ model_trainable' =
          {named_parameters(AuraFlowTree, ModelAdapters)[k] :
              k \in 1..Len(named_parameters(AuraFlowTree, ModelAdapters))}
    /\ Log(p, <<Call("before_setup_model", 0, 0), Call("setup_model", 0, 0)>>)
    /\ Goto(p, "setup_peft_if_needed")
    /\ UNCHANGED <<train_config, len_train_dataloader, epoch, batch_index,
                   current_step, arrived, saved, model_is_peft>>
    /\ TrainFrame

\* Trainer.setup_peft_if_needed, replace_to_peft_linear included
SetupPeft(p) ==
    /\ tr_pc[p] = "setup_peft_if_needed"
    /\ IF train_config.peft.present
       THEN /\ model_is_peft' = TRUE
            /\ model_modules' = replace_to_peft_linear(model_modules, train_config.peft)
            /\ model_trainable' =
                  UNION {AdapterTrainable(model_modules[k].path,
                                          train_config.peft.use_bias) :
                            k \in {n \in 1..Len(model_modules) :
                                     IsTarget(model_modules[n],
                                              train_config.peft.include_keys,
                                              train_config.peft.exclude_keys)}}
       ELSE /\ model_is_peft' = FALSE
            /\ UNCHANGED <<model_modules, model_trainable>>
    /\ Log(p, <<Call("setup_peft_if_needed", 0, 0)>>)
    /\ Goto(p, "after_setup_model")
    /\ UNCHANGED <<train_config, len_train_dataloader, epoch, batch_index,
                   current_step, arrived, saved>>
    /\ TrainFrame

\* after_setup_model that leaves the migration scale as it finds it
AfterSetupModel_ScaleLeft(p) ==
    /\ tr_pc[p] = "after_setup_model"
    /\ Log(p, <<Call("after_setup_model", 0, 0)>>)
    /\ Goto(p, "setup_optimizer")
    /\ UNCHANGED <<train_config, len_train_dataloader, epoch, batch_index,
                   current_step, arrived, saved, model_modules,
                   model_trainable, model_is_peft>>
    /\ TrainFrame

\* AuraFlowForRoPEMigrationTraining.after_setup_model
AfterSetupModel(p) ==
    /\ tr_pc[p] = "after_setup_model"
    /\ model_trainable' = model_trainable \cup
          {n \in ModelParameters : Contains(n, migration_scale_scale)}
    /\ Log(p, <<Call("after_setup_model", 0, 0)>>)
    /\ Goto(p, "setup_optimizer")
    /\ UNCHANGED <<train_config, len_train_dataloader, epoch, batch_index,
                   current_step, arrived, saved, model_modules, model_is_peft>>
    /\ TrainFrame

\* accelerator.prepare(self.model); setup_optimizer; before_train returns
SetupOptimizer(p) ==
    /\ tr_pc[p] = "setup_optimizer"
    /\ Log(p, <<Call("setup_optimizer", 0, 0)>>)
    /\ Goto(p, "sanity_check")
    /\ UNCHANGED <<train_config, len_train_dataloader, epoch, batch_index,
                   current_step, arrived, saved, model_modules,
                   model_trainable, model_is_peft>>
    /\ TrainFrame

\* the assertion of sanity_check, for the process that has set up a model
MigrationScaleTrainable(p) ==
    is_main_process(p) =>
        \E n \in model_trainable : Contains(n, migration_scale_scale)

\* self.model.sanity_check(), then the start of training_loop
SanityCheck(p) ==
    /\ tr_pc[p] = "sanity_check"
    /\ Log(p, <<Call("sanity_check", 0, 0)>>)
    /\ IF ~MigrationScaleTrainable(p)
       THEN Goto(p, "AssertionError") /\ UNCHANGED <<epoch, current_step>>
       ELSE IF train_config.debug_mode = "sanity_check"
       THEN Goto(p, "returned") /\ UNCHANGED <<epoch, current_step>>
       ELSE /\ Goto(p, "train_epoch")
            /\ epoch' = [epoch EXCEPT ![p] = 1]
            /\ current_step' = [current_step EXCEPT ![p] = 0]
    /\ UNCHANGED <<train_config, len_train_dataloader, batch_index, arrived, saved,
                   model_modules, model_trainable, model_is_peft>>
    /\ TrainFrame

\* for epoch in range(1, total_epochs + 1): before_train_epoch
BeforeTrainEpoch(p) ==
    /\ tr_pc[p] = "train_epoch"
    /\ Log(p, <<Call("before_train_epoch", epoch[p], current_step[p])>>)
    /\ batch_index' = [batch_index EXCEPT ![p] = 0]
    /\ Goto(p, IF len_train_dataloader > 0 THEN "train_step" ELSE "epoch_end")
    /\ UNCHANGED <<train_config, len_train_dataloader, epoch, current_step,
                   arrived, saved, model_modules, model_trainable,
                   model_is_peft>>
    /\ TrainFrame

\* the step counter starts again in every epoch
TrainStep_CounterPerEpoch(p) ==
    /\ tr_pc[p] = "train_step"
    /\ current_step' = [current_step EXCEPT ![p] = batch_index[p] + 1]
    /\ Log(p, <<Call("before_train_step", epoch[p], batch_index[p] + 1),
                Call("train_step", epoch[p], batch_index[p] + 1),
                Call("backward", epoch[p], batch_index[p] + 1),
                Call("after_train_step", epoch[p], batch_index[p] + 1)>>)
    /\ Goto(p, "call_saving_callbacks")
    /\ UNCHANGED <<train_config, len_train_dataloader, epoch, batch_index,
                   arrived, saved, model_modules, model_trainable,
                   model_is_peft>>
    /\ TrainFrame

\* one batch: before_train_step, train_step, backward, after_train_step
TrainStep(p) ==
    /\ tr_pc[p] = "train_step"
    /\ current_step' = [current_step EXCEPT ![p] = @ + 1]
    /\ Log(p, <<Call("before_train_step", epoch[p], current_step[p] + 1),
                Call("train_step", epoch[p], current_step[p] + 1),
                Call("backward", epoch[p], current_step[p] + 1),
                Call("after_train_step", epoch[p], current_step[p] + 1)>>)
    /\ Goto(p, "call_saving_callbacks")
    /\ UNCHANGED <<train_config, len_train_dataloader, epoch, batch_index,
                   arrived, saved, model_modules, model_trainable,
                   model_is_peft>>
    /\ TrainFrame

\* where the batch loop goes once call_saving_callbacks has returned
AfterBatch(p) ==
    IF train_config.debug_mode = "1step" THEN "epoch_end"
    ELSE IF batch_index[p] + 1 < len_train_dataloader THEN "train_step"
    ELSE "epoch_end"

NextBatch(p) ==
    batch_index' = [batch_index EXCEPT ![p] =
                       IF train_config.debug_mode = "1step" THEN @ ELSE @ + 1]

ShouldSave(p) ==
    should_save(train_config.saving, len_train_dataloader,
                train_config.num_train_epochs, epoch[p], current_step[p])

\* call_saving_callbacks(epoch, current_step): should_save, before_save_model
CallSavingCallbacks(p) ==
    /\ tr_pc[p] = "call_saving_callbacks"
    /\ IF ShouldSave(p)
       THEN /\ Log(p, <<Call("call_saving_callbacks", epoch[p], current_step[p]),
                        Call("before_save_model", epoch[p], current_step[p])>>)
            /\ Goto(p, "save_state_dict")
            /\ UNCHANGED batch_index
       ELSE /\ Log(p, <<Call("call_saving_callbacks", epoch[p], current_step[p])>>)
            /\ Goto(p, AfterBatch(p))
            /\ NextBatch(p)
    /\ UNCHANGED <<train_config, len_train_dataloader, epoch, current_step,
                   arrived, saved, model_modules, model_trainable,
                   model_is_peft>>
    /\ TrainFrame

\* the files the callbacks write for one state dict
SavedFiles(p, state_dict) ==
    [k \in 1..train_config.saving.callbacks |->
        [callback |-> k, epoch |-> epoch[p], steps |-> current_step[p],
         keys |-> state_dict, trainable |-> model_trainable]]

\* only the main process calls accelerator.wait_for_everyone()
SaveStateDict_MainOnlyWaits(p) ==
    /\ tr_pc[p] = "save_state_dict"
    /\ IF is_main_process(p)
       THEN /\ saved' = saved \o SavedFiles(p, get_state_dict_to_save)
            /\ Log(p, [k \in 1..train_config.saving.callbacks |->
                          Call("save_state_dict", epoch[p], current_step[p])]
                      \o <<Call("wait_for_everyone", epoch[p], current_step[p])>>)
            /\ arrived' = [arrived EXCEPT ![p] = @ + 1]
       ELSE /\ saved' = saved
            /\ Log(p, <<>>)
            /\ arrived' = arrived
    /\ Goto(p, "wait_for_everyone")
    /\ UNCHANGED <<train_config, len_train_dataloader, epoch, batch_index,
                   current_step, model_modules, model_trainable, model_is_peft>>
    /\ TrainFrame

\* on the main process the callbacks write the state dict; every process
\* then calls accelerator.wait_for_everyone()
SaveStateDict(p) ==
    /\ tr_pc[p] = "save_state_dict"
    /\ IF train_config.saving.callbacks > 0 /\ is_main_process(p)
       THEN /\ saved' = saved \o SavedFiles(p, get_state_dict_to_save)
            /\ Log(p, [k \in 1..train_config.saving.callbacks |->
                          Call("save_state_dict", epoch[p], current_step[p])]
                      \o <<Call("wait_for_everyone", epoch[p], current_step[p])>>)
       ELSE /\ saved' = saved
            /\ Log(p, <<Call("wait_for_everyone", epoch[p], current_step[p])>>)
    /\ arrived' = [arrived EXCEPT ![p] = @ + 1]
    /\ Goto(p, "wait_for_everyone")
    /\ UNCHANGED <<train_config, len_train_dataloader, epoch, batch_index,
                   current_step, model_modules, model_trainable, model_is_peft>>
    /\ TrainFrame

\* wait_for_everyone returns once every process has called it as often
BarrierOpen(p) == \A q \in Processes : arrived[q] >= arrived[p]

\* the barrier opens; after_save_model
AfterSaveModel(p) ==
    /\ tr_pc[p] = "wait_for_everyone"
    /\ BarrierOpen(p)
    /\ Log(p, <<Call("after_save_model", epoch[p], current_step[p])>>)
    /\ Goto(p, AfterBatch(p))
    /\ NextBatch(p)
    /\ UNCHANGED <<train_config, len_train_dataloader, epoch, current_step,
                   arrived, saved, model_modules, model_trainable,
                   model_is_peft>>
    /\ TrainFrame

\* the epoch loop goes on after a "1step" epoch
AfterTrainEpoch_NoBreak(p) ==
    /\ tr_pc[p] = "epoch_end"
    /\ Log(p, <<Call("after_train_epoch", epoch[p], current_step[p])>>)
    /\ IF epoch[p] < train_config.num_train_epochs
       THEN /\ epoch' = [epoch EXCEPT ![p] = @ + 1]
            /\ Goto(p, "train_epoch")
       ELSE /\ epoch' = epoch
            /\ Goto(p, "after_train")
    /\ UNCHANGED <<train_config, len_train_dataloader, batch_index,
                   current_step, arrived, saved, model_modules,
                   model_trainable, model_is_peft>>
    /\ TrainFrame

\* after_train_epoch; no eval_dataloader; the next epoch, or the loop ends
AfterTrainEpoch(p) ==
    /\ tr_pc[p] = "epoch_end"
    /\ Log(p, <<Call("after_train_epoch", epoch[p], current_step[p])>>)
    /\ IF train_config.debug_mode # "1step"
            /\ epoch[p] < train_config.num_train_epochs
       THEN /\ epoch' = [epoch EXCEPT ![p] = @ + 1]
            /\ Goto(p, "train_epoch")
       ELSE /\ epoch' = epoch
            /\ Goto(p, "after_train")
    /\ UNCHANGED <<train_config, len_train_dataloader, batch_index,
                   current_step, arrived, saved, model_modules,
                   model_trainable, model_is_peft>>
    /\ TrainFrame

\* Trainer.after_train; train returns
AfterTrain(p) ==
    /\ tr_pc[p] = "after_train"
    /\ Log(p, <<Call("after_train", epoch[p], current_step[p])>>)
    /\ Goto(p, "returned")
    /\ UNCHANGED <<train_config, len_train_dataloader, epoch, batch_index,
                   current_step, arrived, saved, model_modules,
                   model_trainable, model_is_peft>>
    /\ TrainFrame

TrainNext ==
    \E p \in Processes :
        \/ BeforeTrain(p) \/ SetupModel(p) \/ SetupPeft(p) \/ AfterSetupModel(p)
        \/ SetupOptimizer(p) \/ SanityCheck(p) \/ BeforeTrainEpoch(p)
        \/ TrainStep(p) \/ CallSavingCallbacks(p) \/ SaveStateDict(p)
        \/ AfterSaveModel(p) \/ AfterTrainEpoch(p) \/ AfterTrain(p)

\* ------------------------------------------------- the trainer's logging
MaxLogs == 3

\* the names the training scripts log under
LogNames == {"epoch", "train/loss", "train/rope_migration_loss"}

LogIdle ==
    /\ log_config = [debug_mode |-> "False", tracker |-> FALSE]
    /\ trackers_initialised = FALSE
    /\ log_calls = <<>> /\ accelerator_log = <<>>
    /\ log_pc = "idle"

LogFrame ==
    UNCHANGED <<genVars, vaeVars, latVars, peftVars, keyVars, loadVars,
                trainVars, resizeVars>>

LogInit ==
    /\ log_config \in [debug_mode : DebugModes, tracker : BOOLEAN]
    /\ trackers_initialised = FALSE
    /\ log_calls = <<>> /\ accelerator_log = <<>>
    /\ log_pc = "new"

\* Trainer.__init__: the accelerator is built, and the trackers are
\* initialised when debug_mode is False and config.tracker is not None
Trainer_init ==
    /\ log_pc = "new"
    /\ trackers_initialised' =
          (log_config.debug_mode = "False" /\ log_config.tracker)
    /\ log_pc' = "ready"
    /\ UNCHANGED <<log_config, log_calls, accelerator_log>>
    /\ LogFrame

\* Trainer.log: returns at once when debug_mode is False, hands the record
\* to accelerator.log otherwise
Trainer_log(record) ==
    /\ log_pc = "ready"
    /\ Len(log_calls) < MaxLogs
    /\ log_calls' = Append(log_calls, record)
    /\ accelerator_log' =
          IF log_config.debug_mode = "False" THEN accelerator_log
          ELSE Append(accelerator_log, record)
    /\ UNCHANGED <<log_config, trackers_initialised, log_pc>>
    /\ LogFrame

LogNext ==
    \/ Trainer_init
    \/ \E record \in LogNames : Trainer_log(record)

\* ------------------------------------------------------ ObjectCoverResize
\* image and target sides, in pixels
ImageSizes == {7, 14, 29, 768, 1092}

\* The triples (a, num, den) over ImageSizes for which the double
\* a * (num / den), quotient and product each rounded to the nearest
\* binary64 value, lies above the integer a * num / den; for every other
\* triple over ImageSizes math.ceil of the double is the exact ceiling.
FloatProductAbove ==
    {<<7, 29, 7>>, <<14, 29, 7>>, <<14, 29, 14>>, <<1092, 768, 1092>>}

\* math.ceil(a * scaling_factor) with scaling_factor the double num / den
ceil_scaled(a, num, den) ==
    CeilDiv(a * num, den)
        + (IF <<a, num, den>> \in FloatProductAbove THEN 1 ELSE 0)

\* max(w_scale, h_scale), as numerator and denominator
max_scale(r) ==
    IF r.target_width * r.h >= r.target_height * r.w
    THEN <<r.target_width, r.w>>
    ELSE <<r.target_height, r.h>>

ResizeIdle ==
    /\ resize_args = [w |-> 1, h |-> 1, target_width |-> 1,
                      target_height |-> 1, do_upscale |-> FALSE]
    /\ scaled_w = 0 /\ scaled_h = 0
    /\ resize_pc = "idle"

ResizeFrame ==
    UNCHANGED <<genVars, vaeVars, latVars, peftVars, keyVars, loadVars,
                trainVars, logVars>>

ResizeInit ==
    /\ resize_args \in [w : ImageSizes, h : ImageSizes,
                        target_width : ImageSizes, target_height : ImageSizes,
                        do_upscale : BOOLEAN]
    /\ scaled_w = 0 /\ scaled_h = 0
    /\ resize_pc = "start"

\* ObjectCoverResize.__call__ on an image smaller than the target with
\* do_upscale off
ObjectCoverResize_raise ==
    /\ resize_pc = "start"
    /\ \/ resize_args.w < resize_args.target_width
       \/ resize_args.h < resize_args.target_height
    /\ ~resize_args.do_upscale
    /\ resize_pc' = "ValueError"
    /\ UNCHANGED <<resize_args, scaled_w, scaled_h>>
    /\ ResizeFrame

\* ObjectCoverResize.__call__ otherwise
ObjectCoverResize_call ==
    /\ resize_pc = "start"
    /\ ~ /\ \/ resize_args.w < resize_args.target_width
            \/ resize_args.h < resize_args.target_height
         /\ ~resize_args.do_upscale
    /\ LET s == max_scale(resize_args)
       IN  /\ scaled_w' = ceil_scaled(resize_args.w, s[1], s[2])
           /\ scaled_h' = ceil_scaled(resize_args.h, s[1], s[2])
    /\ resize_pc' = "resized"
    /\ UNCHANGED resize_args
    /\ ResizeFrame

ResizeNext == ObjectCoverResize_raise \/ ObjectCoverResize_call

\* ------------------------------------------------------- specifications
Init ==
    GenInit /\ VaeIdle /\ LatIdle /\ PeftIdle /\ KeyIdle /\ LoadIdle
        /\ TrainIdle /\ LogIdle /\ ResizeIdle

Next == GenNext

Spec == Init /\ [][Next]_vars

InitVae ==
    VaeInit /\ GenIdle /\ LatIdle /\ PeftIdle /\ KeyIdle /\ LoadIdle
        /\ TrainIdle /\ LogIdle /\ ResizeIdle

NextVae == EncodeImage \/ DecodeImage

SpecVae == InitVae /\ [][NextVae]_vars

InitLatents ==
    LatInit /\ GenIdle /\ VaeIdle /\ PeftIdle /\ KeyIdle /\ LoadIdle
        /\ TrainIdle /\ LogIdle /\ ResizeIdle

NextLatents == PrepareLatentsCall

SpecLatents == InitLatents /\ [][NextLatents]_vars

InitPeft ==
    PeftInit /\ GenIdle /\ VaeIdle /\ LatIdle /\ KeyIdle /\ LoadIdle
        /\ TrainIdle /\ LogIdle /\ ResizeIdle

NextPeft == SetupPeftIfNeeded \/ ReplaceTarget \/ FinishReplace

SpecPeft == InitPeft /\ [][NextPeft]_vars

InitKeys ==
    KeyInit /\ GenIdle /\ VaeIdle /\ LatIdle /\ PeftIdle /\ LoadIdle
        /\ TrainIdle /\ LogIdle /\ ResizeIdle

NextKeys == CollectAdapterParameters \/ ConvertToOriginal \/ ConvertToComfy

SpecKeys == InitKeys /\ [][NextKeys]_vars

InitLoad ==
    LoadInit /\ GenIdle /\ VaeIdle /\ LatIdle /\ PeftIdle /\ KeyIdle
        /\ TrainIdle /\ LogIdle /\ ResizeIdle

NextLoad == LoadDenoiser \/ LoadVae \/ LoadTextEncoder

SpecLoad == InitLoad /\ [][NextLoad]_vars

InitTrainer ==
    TrainInit /\ GenIdle /\ VaeIdle /\ LatIdle /\ PeftIdle /\ KeyIdle /\ LoadIdle
        /\ LogIdle /\ ResizeIdle

NextTrainer == TrainNext

SpecTrainer == InitTrainer /\ [][NextTrainer]_vars

InitLog ==
    LogInit /\ GenIdle /\ VaeIdle /\ LatIdle /\ PeftIdle /\ KeyIdle /\ LoadIdle
        /\ TrainIdle /\ ResizeIdle

NextLog == LogNext

SpecLog == InitLog /\ [][NextLog]_vars

InitResize ==
    ResizeInit /\ GenIdle /\ VaeIdle /\ LatIdle /\ PeftIdle /\ KeyIdle
        /\ LoadIdle /\ TrainIdle /\ LogIdle

NextResize == ResizeNext

SpecResize == InitResize /\ [][NextResize]_vars

\* --------------------------------------------------------------- claims
GuidanceAsked == args.cfg_scale > 10

InputBatch == IF GuidanceAsked THEN 2 * args.prompt ELSE args.prompt

IsPrefix(a, b) == Len(a) <= Len(b) /\ a = SubSeq(b, 1, Len(a))

\* C1: guidance is on exactly when cfg_scale > 1.0; at cfg_scale <= 1.0 no
\* denoiser input is doubled, the text encoder is not asked for negative
\* embeddings, no negative row is in the conditioning handed to the denoiser
\* and the guidance combination is never applied.
C1_GuidanceOnlyAboveOne ==
    /\ pc \notin {"idle", "args"} => (do_cfg <=> GuidanceAsked)
    /\ \A k \in 1..Len(te_calls) :
          te_calls[k].use_negative_prompts <=> GuidanceAsked
    /\ \A k \in 1..Len(den_calls) :
          /\ Len(den_calls[k].latent) = InputBatch
          /\ ~GuidanceAsked =>
                \A r \in 1..Len(den_calls[k].encoder_hidden_states) :
                    den_calls[k].encoder_hidden_states[r] # "neg"
    /\ \A k \in 1..Len(step_calls) : step_calls[k].combined <=> GuidanceAsked

C1_Witness ==
    /\ args.cfg_scale = 10 /\ args.negative_prompt > 0 /\ args.prompt = 2
    /\ pc = "done" /\ Len(step_calls) >= 2

\* C2: with offloading, every call of a sub-network is made while it is on
\* the compute device, after its move there and before its move back, and on
\* a normal return the three sub-networks are on "cpu".
C2_InvokedWhileResident ==
    Offloads =>
        /\ \A k \in 1..Len(order) :
              order[k][1] = "call" =>
                /\ order[k][3] = execution_device
                /\ \E j \in 1..(k - 1) :
                      /\ order[j] = <<"to", order[k][2], execution_device>>
                      /\ \A m \in (j + 1)..(k - 1) :
                            order[m] # <<"to", order[k][2], "cpu">>
        /\ pc = "done" => \A n \in Networks : device_of[n] = "cpu"

C2_Witness ==
    /\ Offloads /\ home = "cpu" /\ pc = "done"
    /\ Len(den_calls) >= 2 /\ Len(dec_calls) = 1

\* generate failed in a denoiser call that was well-formed but for its shapes
ShapeFailure ==
    /\ pc = "failed" /\ impl = "pipeline" /\ den_calls # <<>>
    /\ den_calls[Len(den_calls)].kw = "timestep"

\* C3: a generate call that offloads and fails on a shape problem has made no
\* residency transition, and leaves no sub-network on the compute device.
C3_FailFastBeforeResidency ==
    (ShapeFailure /\ args.do_offloading) =>
        /\ \A k \in 1..Len(order) : order[k][1] # "to"
        /\ home = "cpu" => \A n \in Networks : device_of[n] = "cpu"

\* C4: the loop visits the timesteps in schedule order, one denoiser call then
\* one scheduler.step per timestep; the latent of step k+1 is the one step k
\* returned (the prepared latent at the first step), and decode gets the last.
C4_SequentialLoop ==
    LET nd == Len(den_calls)
        ns == Len(step_calls)
    IN  /\ nd = (IF pc \in {"step", "failed"} /\ nd > 0 THEN ns + 1 ELSE ns)
        /\ \A k \in 1..Len(order) :
              /\ order[k][1] = "step" =>
                    k > 1 /\ order[k - 1][1] = "call" /\ order[k - 1][2] = "denoiser"
              /\ (order[k][1] = "call" /\ order[k][2] = "denoiser" /\ k < Len(order))
                    => order[k + 1][1] = "step"
        /\ \A k \in 1..nd : den_calls[k].current_timestep = timesteps[k]
        /\ \A k \in 1..ns :
              /\ step_calls[k].timestep = timesteps[k]
              /\ den_calls[k].latent =
                    LatentModelInput(step_calls[k].sample, GuidanceAsked)
        /\ ns >= 1 =>
              step_calls[1].sample =
                [r \in 1..args.prompt |-> 10000 + 1000 * (args.seed + r - 1)]
        /\ \A k \in 1..(ns - 1) : step_calls[k + 1].sample = step_calls[k].out
        /\ \A k \in 2..nd :
              den_calls[k].latent =
                    LatentModelInput(step_calls[k - 1].out, GuidanceAsked)
        /\ \A k \in 1..Len(dec_calls) :
              /\ ns = Len(timesteps)
              /\ dec_calls[k].latents = step_calls[ns].out
        /\ pc = "done" => (nd = Len(timesteps) /\ Len(dec_calls) = 1)

C4_Witness ==
    /\ pc = "done" /\ Len(step_calls) >= 3
    /\ step_calls[2].sample # step_calls[1].sample
    /\ step_calls[3].sample # step_calls[2].sample

\* C5: generate with do_offloading switched, same arguments, makes the same
\* text-encoder, denoiser, scheduler.step and decode calls and returns the
\* same images.
C5_OffloadingChangesNothing ==
    prev.ran =>
        /\ pc # "failed"
        /\ IsPrefix(te_calls, prev.te_calls)
        /\ IsPrefix(den_calls, prev.den_calls)
        /\ IsPrefix(step_calls, prev.step_calls)
        /\ IsPrefix(dec_calls, prev.dec_calls)
        /\ pc = "done" =>
              /\ te_calls = prev.te_calls /\ den_calls = prev.den_calls
              /\ step_calls = prev.step_calls /\ dec_calls = prev.dec_calls
              /\ image = prev.image

C5_Witness ==
    /\ prev.ran /\ pc = "done" /\ Len(den_calls) >= 2 /\ home = "cuda"
    /\ Len(image) = 2 /\ GuidanceAsked

\* C6: at every denoiser call the timestep argument is a vector as long as the
\* network input's batch, every entry the current timestep / 1000, in every
\* definition of generate.
C6_TimestepVector ==
    \A k \in 1..Len(den_calls) :
        /\ den_calls[k].kw = "timestep"
        /\ Len(den_calls[k].latent) = InputBatch
        /\ den_calls[k].timestep =
              Rows(Len(den_calls[k].latent), den_calls[k].current_timestep)

\* C7: encode_image multiplies the sample by vae.scaling_factor and
\* decode_image divides by it, so that decode_image(encode_image(x)) hands
\* the raw sample to vae.decode, in every definition.
C7_ScalingSymmetric ==
    /\ vae_pc \in {"decode", "done"} =>
          image_latents.num * scaling_factor.den
              = vae_sample * scaling_factor.num * image_latents.den
    /\ vae_pc = "done" => decode_input.num = vae_sample * decode_input.den

\* C8 as claimed: whatever prepare_latents returns has the shape
\* [batch_size, latent_channels, height // ratio, width // ratio].
C8_ShapeAlways ==
    pl_pc = "returned" =>
        /\ Len(pl_latents.shape) = 4
        /\ pl_latents.shape[1] = pl_args.batch_size
        /\ pl_latents.shape[2] = in_channels
        /\ pl_latents.shape[3] * compression_ratio <= pl_args.height
        /\ pl_args.height < (pl_latents.shape[3] + 1) * compression_ratio
        /\ pl_latents.shape[4] * compression_ratio <= pl_args.width
        /\ pl_args.width < (pl_latents.shape[4] + 1) * compression_ratio

\* C8, amended: a latent prepare_latents draws has that shape (floor
\* division, no error); a latent the caller supplied comes back with the
\* shape it came with.
C8_ShapeWhenDrawn ==
    pl_pc = "returned" =>
        IF pl_args.latents.given
        THEN pl_latents.shape = pl_args.latents.shape
        ELSE /\ Len(pl_latents.shape) = 4
             /\ pl_latents.shape[1] = pl_args.batch_size
             /\ Len(pl_latents.rows) = pl_args.batch_size
             /\ pl_latents.shape[2] = in_channels
             /\ pl_latents.shape[3] * compression_ratio <= pl_args.height
             /\ pl_args.height < (pl_latents.shape[3] + 1) * compression_ratio
             /\ pl_latents.shape[4] * compression_ratio <= pl_args.width
             /\ pl_args.width < (pl_latents.shape[4] + 1) * compression_ratio

C8_Witness ==
    /\ pl_pc = "returned" /\ ~pl_args.latents.given
    /\ pl_args.height = 20 /\ pl_args.width = 24 /\ pl_args.batch_size = 2
    /\ pl_latents.shape = <<2, 4, 2, 3>>

\* C9: for num_steps >= 1 the schedule has num_steps entries, the returned
\* step count is its length, it decreases strictly, and the loop runs
\* num_inference_steps times.
C9_ScheduleLength ==
    /\ (pc = "failed" /\ den_calls = <<>>) => args.num_inference_steps < 1
    /\ (pc \notin {"idle", "args"} /\ args.num_inference_steps >= 1) =>
          /\ Len(timesteps) = args.num_inference_steps
          /\ num_inference_steps = Len(timesteps)
          /\ \A k \in 1..(Len(timesteps) - 1) : timesteps[k] > timesteps[k + 1]
          /\ pc = "done" =>
                /\ Len(den_calls) = args.num_inference_steps
                /\ Len(step_calls) = args.num_inference_steps

C9_Witness ==
    /\ pc = "done" /\ args.num_inference_steps = 3 /\ Len(step_calls) = 3
    /\ timesteps[1] > timesteps[3]

\* C10: after the set-up a node is an adapter exactly when its path has an
\* include key (or there are none), has no exclude key, and it was a plain
\* linear projection; every other node keeps its kind.  With include ".0" and
\* exclude "layer2" the adapters are layer1.0 and layer3.0.
C10_TargetsExactly ==
    peft_pc = "done" =>
        /\ Len(modules) = Len(TestModel)
        /\ \A k \in 1..Len(TestModel) :
              LET was == TestModel[k]
                  hit == /\ peft_config.present
                         /\ was.kind = "Linear"
                         /\ \/ peft_config.include_keys = {}
                            \/ \E key \in peft_config.include_keys :
                                  Contains(was.path, key)
                         /\ ~\E key \in peft_config.exclude_keys :
                                  Contains(was.path, key)
              IN  /\ modules[k].path = was.path
                  /\ (modules[k].kind = "LoRALinear") <=> hit
                  /\ ~hit => modules[k] = was
        /\ (/\ peft_config.present
            /\ peft_config.include_keys = {dot0}
            /\ peft_config.exclude_keys = {layer2}) =>
              {modules[k].path : k \in {n \in 1..Len(modules) :
                                          modules[n].kind = "LoRALinear"}}
                  = {layer1 \o dot0, layer3 \o dot0}

C10_Witness ==
    /\ peft_pc = "done" /\ peft_config.present
    /\ peft_config.include_keys = {dot0} /\ peft_config.exclude_keys = {layer2}
    /\ modules[3].kind = "LoRALinear" /\ modules[11].kind = "LoRALinear"
    /\ modules[5].kind = "Linear" /\ modules[7].kind = "Linear"
    /\ modules[9].kind = "Linear"

\* the positions holding an adapter node
AdapterPositions == {k \in 1..Len(modules) : modules[k].kind = "LoRALinear"}

NoDuplicates(s) == \A a, b \in 1..Len(s) : s[a] = s[b] => a = b

\* C11: injection keeps every container's children, their names and their
\* order; an adapter sits at the position of the projection it replaced and
\* wraps that projection, never another adapter; every target is wrapped
\* exactly once, none is skipped, and the other nodes are left as they were.
C11_PositionsPreserved ==
    peft_pc \in {"replace", "done"} =>
        /\ Len(modules) = Len(TestModel)
        /\ \A k \in 1..Len(TestModel) :
              /\ modules[k].path = TestModel[k].path
              /\ modules[k].in_features = TestModel[k].in_features
              /\ modules[k].out_features = TestModel[k].out_features
              /\ IF k \in AdapterPositions
                 THEN /\ adapters[k].present
                      /\ adapters[k].linear = TestModel[k]
                      /\ adapters[k].linear.kind = "Linear"
                 ELSE /\ modules[k] = TestModel[k]
                      /\ adapters[k] = NoAdapter
        /\ NoDuplicates(replaced)
        /\ {replaced[k] : k \in 1..Len(replaced)} = AdapterPositions
        /\ is_peft =>
              replaced \o targets = find_targets(TestModel,
                                                 peft_config.include_keys,
                                                 peft_config.exclude_keys)

C11_Witness ==
    /\ peft_pc = "done" /\ peft_config.include_keys = {layer1}
    /\ peft_config.exclude_keys = {}
    /\ replaced = <<3, 5>>
    /\ modules[3].kind = "LoRALinear" /\ modules[4].kind = "ReLU"
    /\ modules[5].kind = "LoRALinear" /\ modules[5].path = layer1 \o dot2

\* C12: right after the injection every adapter node gives, for every input,
\* the output of the projection it wraps, and the model gives the output it
\* gave before the injection.
C12_ZeroEffect ==
    peft_pc \in {"replace", "done"} =>
        \A x \in Inputs :
            /\ \A k \in AdapterPositions :
                  RatEq(module_forward(modules[k], adapters[k], weight[k], Rat(x)),
                        linear_forward(weight[k], Rat(x)))
            /\ RatEq(forward(modules, adapters, weight, x),
                     forward(TestModel, NoAdapters, weight, x))

C12_Witness ==
    /\ peft_pc = "done" /\ Cardinality(AdapterPositions) >= 2
    /\ adapters[3].present /\ adapters[3].lora_down.weight = 2
    /\ forward(modules, adapters, weight, 3).num # 0
    /\ forward(modules, adapters, weight, 3).den > 1

Range(s) == {s[k] : k \in 1..Len(s)}

\* the named parameters that sit in an adapter node, outside the projection
\* it wraps
UnderAdapter ==
    {n \in Range(named_parameters(modules, adapters)) :
        \E k \in AdapterPositions :
            /\ IsPrefix(modules[k].path \o <<".">>, n)
            /\ ~IsPrefix(modules[k].path \o dot_linear, n)}

\* C14: get_adapter_parameters gives, under their qualified path and once
\* each, the down-projection, up-projection, scale and (if enabled) bias of
\* every adapter node and nothing else: no parameter of the model as it was,
\* none of a wrapped projection; 3k entries for k adapters without bias.
C14_AdapterParameters ==
    peft_pc = "done" =>
        LET keys == get_adapter_parameters(modules, adapters)
        IN  /\ NoDuplicates(keys)
            /\ Range(keys) = UnderAdapter
            /\ Range(keys) \cap
                  Range(named_parameters(TestModel, NoAdapters)) = {}
            /\ \A n \in Range(keys) : ~Contains(n, dot_linear)
            /\ is_peft => trainable \subseteq Range(keys)
            /\ \A k \in AdapterPositions :
                  /\ modules[k].path \o dot_lora_down \o dot_weight \in Range(keys)
                  /\ modules[k].path \o dot_lora_up \o dot_weight \in Range(keys)
                  /\ modules[k].path \o dot_alpha \in Range(keys)
                  /\ (modules[k].path \o dot_lora_up \o dot_bias \in Range(keys))
                        <=> peft_config.use_bias
            /\ Len(keys) = (IF peft_config.use_bias THEN 4 ELSE 3)
                              * Cardinality(AdapterPositions)

C14_Witness ==
    /\ peft_pc = "done" /\ ~peft_config.use_bias
    /\ peft_config.include_keys = {dot0} /\ peft_config.exclude_keys = {layer2}
    /\ get_adapter_parameters(modules, adapters)
          = << layer1 \o dot0 \o dot_lora_down \o dot_weight,
               layer1 \o dot0 \o dot_lora_up \o dot_weight,
               layer1 \o dot0 \o dot_alpha,
               layer3 \o dot0 \o dot_lora_down \o dot_weight,
               layer3 \o dot0 \o dot_lora_up \o dot_weight,
               layer3 \o dot0 \o dot_alpha >>

\* C15: when every key of the adapter parameter set starts with "denoiser.",
\* convert_to_original_key and convert_to_comfy_key each give as many distinct
\* keys as they were given, every upstream key starting with "model." and
\* every third-party key with "diffusion_model.".
C15_RemapKeepsKeysApart ==
    (\A k \in 1..Len(peft_state_dict) :
        startswith(peft_state_dict[k], denoiser_prefix)) =>
        /\ key_pc \notin {"KeyMappingError"}
        /\ key_pc \in {"comfy", "done"} =>
              /\ Cardinality(orig_state_dict) = Len(peft_state_dict)
              /\ \A key \in orig_state_dict : startswith(key, original_prefix)
        /\ key_pc = "done" =>
              /\ Cardinality(comfy_state_dict) = Len(peft_state_dict)
              /\ \A key \in comfy_state_dict : startswith(key, comfy_prefix)

C15_Witness ==
    /\ key_pc = "done" /\ key_config = SaveLoraConfig
    /\ Len(peft_state_dict) = 12
    /\ Cardinality(orig_state_dict) = 12 /\ Cardinality(comfy_state_dict) = 12
    /\ comfy_prefix \o SubSeq(path_denoiser_double_layers_0_attn_w1q, 10, 33)
          \o dot_lora_up \o dot_weight \in comfy_state_dict

\* C16: a checkpoint with no key under the denoiser prefix, or none under the
\* text-encoder prefix, makes the load fail at once with CheckpointPrefixError
\* and hands no empty mapping to a sub-network; otherwise each sub-network is
\* given exactly the entries under its prefix, the prefix stripped.
C16_PrefixChecked ==
    LET none_under(prefix) == ~\E key \in checkpoint : startswith(key, prefix)
    IN  IF none_under(DENOISER_TENSOR_PREFIX)
            \/ none_under(TEXT_ENCODER_TENSOR_PREFIX)
        THEN /\ ld_pc # "done"
             /\ ld_pc = "failed" => ld_error = "CheckpointPrefixError"
             /\ ~subnet.denoiser.loaded /\ ~subnet.text_encoder.loaded
        ELSE /\ subnet.denoiser.loaded =>
                   subnet.denoiser.given =
                       {k \in {k_a, k_b} :
                           DENOISER_TENSOR_PREFIX \o k \in checkpoint}
             /\ subnet.text_encoder.loaded =>
                   subnet.text_encoder.given =
                       {k \in {k_a, k_b} :
                           TEXT_ENCODER_TENSOR_PREFIX \o k \in checkpoint}

\* how often process p has called the hook
Count(p, name) ==
    Cardinality({k \in 1..Len(calls[p]) : calls[p][k].name = name})

\* the calls of process p among the given hooks, in order
Among(p, hooks) == SelectSeq(calls[p], LAMBDA call : call.name \in hooks)

\* C13 as claimed: once the adapters are in, for the rest of the set-up and
\* of training, a parameter takes gradients exactly when its path has "lora_".
C13_OnlyAdaptersTrainable ==
    model_is_peft =>
        \A n \in ModelParameters : n \in model_trainable <=> Contains(n, lora_)

\* C13, amended: right after the injection the parameters taking gradients
\* are exactly those with "lora_" in their path; after_setup_model turns the
\* migration scale back on, and from then on they are exactly those and
\* "migration_scale.scale".
C13_AdaptersAndMigrationScale ==
    model_is_peft =>
        \A n \in ModelParameters :
            n \in model_trainable <=>
                \/ Contains(n, lora_)
                \/ /\ tr_pc["main"] # "after_setup_model"
                   /\ Contains(n, migration_scale_scale)

C13_Witness ==
    /\ model_is_peft /\ Count("main", "train_step") >= 1
    /\ path_denoiser_migration_scale \o dot_scale \in model_trainable
    /\ path_denoiser_double_layers_0_attn_w1q \o dot_lora_down \o dot_weight
          \in model_trainable
    /\ path_denoiser_double_layers_0_attn_w1q \o dot_linear \o dot_weight
          \in ModelParameters \ model_trainable
    /\ path_denoiser_final_linear \o dot_weight
          \in ModelParameters \ model_trainable

LoopHooks ==
    {"before_train_epoch", "before_train_step", "train_step", "backward",
     "after_train_step", "call_saving_callbacks", "after_train_epoch"}

\* the hook that may come next in training_loop
Follows(name) ==
    CASE name = "before_train_epoch" -> {"before_train_step", "after_train_epoch"}
      [] name = "before_train_step" -> {"train_step"}
      [] name = "train_step" -> {"backward"}
      [] name = "backward" -> {"after_train_step"}
      [] name = "after_train_step" -> {"call_saving_callbacks"}
      [] name = "call_saving_callbacks" -> {"before_train_step", "after_train_epoch"}
      [] name = "after_train_epoch" -> {"before_train_epoch"}

\* C17: in training_loop every batch calls before_train_step, train_step,
\* backward, after_train_step, call_saving_callbacks in this order;
\* before_train_epoch comes before the first batch of its epoch and
\* after_train_epoch after its last; the step handed to the saving callbacks
\* goes up by exactly 1 per batch and is not reset between epochs.
C17_LifecycleOrder ==
    \A p \in Processes :
        LET L == Among(p, LoopHooks)
            S == Among(p, {"call_saving_callbacks"})
            E == Among(p, {"before_train_epoch"})
        IN  /\ L # <<>> => L[1].name = "before_train_epoch"
            /\ \A k \in 1..(Len(L) - 1) :
                  /\ L[k + 1].name \in Follows(L[k].name)
                  /\ L[k + 1].epoch =
                        (IF L[k + 1].name = "before_train_epoch"
                         THEN L[k].epoch + 1 ELSE L[k].epoch)
            /\ \A k \in 1..Len(E) : E[k].epoch = k
            /\ \A k \in 1..Len(S) : S[k].steps = k
            /\ \A k \in 1..Len(L) :
                  L[k].name = "after_train_epoch" /\ train_config.debug_mode = "False"
                      => Cardinality({j \in 1..k :
                                        /\ L[j].name = "train_step"
                                        /\ L[j].epoch = L[k].epoch})
                            = len_train_dataloader

C17_Witness ==
    /\ tr_pc["other"] = "returned" /\ train_config.debug_mode = "False"
    /\ train_config.num_train_epochs = 2 /\ len_train_dataloader = 2
    /\ Among("other", {"call_saving_callbacks"})[3]
          = Call("call_saving_callbacks", 2, 3)
    /\ Count("other", "after_train_epoch") = 2

SaveHooks ==
    {"call_saving_callbacks", "before_save_model", "save_state_dict",
     "wait_for_everyone", "after_save_model"}

C19_TrainSteps ==
    \A p \in Processes :
        /\ train_config.debug_mode = "dataset" =>
              /\ Count(p, "train_step") = 0 /\ Count(p, "sanity_check") = 0
              /\ Count(p, "setup_model") = 0 /\ model_modules = <<>>
        /\ train_config.debug_mode = "sanity_check" =>
              /\ Count(p, "train_step") = 0
              /\ Count(p, "before_train_epoch") = 0
              /\ tr_pc[p] = "returned" => Count(p, "sanity_check") = 1
        /\ (train_config.debug_mode = "1step" /\ tr_pc[p] = "returned"
                /\ len_train_dataloader >= 1) => Count(p, "train_step") = 1
        /\ (train_config.debug_mode = "False" /\ tr_pc[p] = "returned") =>
              Count(p, "train_step")
                  = train_config.num_train_epochs * len_train_dataloader
        /\ Count(p, "after_train") =
              (IF tr_pc[p] = "returned"
                    /\ train_config.debug_mode \in {"False", "1step"}
               THEN 1 ELSE 0)
        /\ Count(p, "after_train") = 1 =>
              Count(p, "after_train_epoch") >= 1

C19_Witness ==
    /\ train_config.debug_mode = "1step" /\ tr_pc["main"] = "returned"
    /\ train_config.num_train_epochs = 2 /\ len_train_dataloader = 2
    /\ Count("main", "train_step") = 1 /\ Count("main", "after_train") = 1

\* C20: every parameter taking gradients when the model is saved is in the
\* state dict get_state_dict_to_save returns, under its own key or its
\* third-party key, with PEFT as without.
C20_SavedCoversTrainable ==
    \A f \in 1..Len(saved) :
        \A n \in saved[f].trainable :
            \/ n \in saved[f].keys
            \/ /\ convert_to_comfy_key(n).ok
               /\ convert_to_comfy_key(n).key \in saved[f].keys

\* C21: a record handed to Trainer.log reaches accelerator.log only when
\* the constructor initialised the trackers, and where it did (debug_mode
\* False with a tracker configured) every logged record reaches it.
C21_LogForwarded ==
    /\ accelerator_log # <<>> => trackers_initialised
    /\ trackers_initialised => accelerator_log = log_calls

====
